---------------------------- MODULE Spec2Model ----------------------------
(***************************************************************************)
(* xml-surgeon (assets/skills/xml-surgeon/scripts/lib.py and main.py):     *)
(* targeted XML edits.  Texts are sequences of one-character strings, so   *)
(* that the regular expressions and the offset arithmetic of the surgical  *)
(* mutators are computed character by character, as the code does.         *)
(* Offsets are 1-based here (Python's are 0-based); 0 stands for Python's  *)
(* -1 / None of a failed search.                                           *)
(***************************************************************************)
EXTENDS Integers, Sequences, FiniteSets, TLC

\* ------------------------------------------------------------ characters
DQ == "\""
SQ == "'"
BS == "\\"
NL == "\n"
SP == " "

\* Python's \s and str.strip()/rstrip() whitespace, as far as the texts of
\* the model contain it.
IsWs(c) == c \in {SP, NL, "\t"}

\* ASCII letters of the model's alphabet: what a template escape looks at.
IsLetter(c) == c \in {"a", "d", "e", "i", "k", "n", "r", "t", "x", "y", "p", "q", "u", "v"}

SetMin(S) == CHOOSE x \in S : \A y \in S : x <= y

SetMax(S) == CHOOSE x \in S : \A y \in S : x >= y

\* s[a..b], empty when b < a (a Python slice text[a-1:b]).
Slice(s, a, b) == IF b < a THEN <<>> ELSE SubSeq(s, a, b)

\* Whether s occurs in t at offset j.
HasAt(t, j, s) ==
    /\ j >= 1
    /\ j + Len(s) - 1 <= Len(t)
    /\ \A k \in 1..Len(s) : t[j + k - 1] = s[k]

\* str.find(s, from): the first offset >= from where s occurs, 0 if none.
Find(t, s, from) ==
    LET hits == {j \in from..Len(t) : HasAt(t, j, s)}
    IN  IF hits = {} THEN 0 ELSE SetMin(hits)

\* str.rfind(s): the last offset where s occurs, 0 if none.
RFind(t, s) ==
    LET hits == {j \in 1..Len(t) : HasAt(t, j, s)}
    IN  IF hits = {} THEN 0 ELSE SetMax(hits)

\* str.rstrip(): the length of t without its trailing whitespace.
RStripLen(t) ==
    LET keep == {j \in 1..Len(t) : ~IsWs(t[j])}
    IN  IF keep = {} THEN 0 ELSE SetMax(keep)

\* str.rstrip().endswith(s)
RStripEndsWith(t, s) == HasAt(t, RStripLen(t) - Len(s) + 1, s)

\* The end of the whitespace run that starts at i: the first offset >= i
\* that holds no whitespace (Len(t)+1 when the run reaches the end).
WsEnd(t, i) ==
    SetMin({j \in i..(Len(t) + 1) : j = Len(t) + 1 \/ ~IsWs(t[j])})

RECURSIVE Concat(_)
Concat(ss) == IF ss = <<>> THEN <<>> ELSE Head(ss) \o Concat(Tail(ss))

\* ------------------------------------------------------------- escaping

\* xml.sax.saxutils.escape(value, entities): & < > always, then the extra
\* entity of the quote character.  extra is the quote to escape, "" for none.
EscChar(c, extra) ==
    IF c = "&" THEN <<"&", "a", "m", "p", ";">>
    ELSE IF c = "<" THEN <<"&", "l", "t", ";">>
    ELSE IF c = ">" THEN <<"&", "g", "t", ";">>
    ELSE IF c = extra /\ c = DQ THEN <<"&", "q", "u", "o", "t", ";">>
    ELSE IF c = extra /\ c = SQ THEN <<"&", "a", "p", "o", "s", ";">>
    ELSE <<c>>

xml_escape(value, extra) == Concat([k \in 1..Len(value) |-> EscChar(value[k], extra)])

escape_attr(value, quote) ==
    IF quote = DQ THEN xml_escape(value, DQ) ELSE xml_escape(value, SQ)

\* ------------------------------------------- re.sub replacement templates

\* What re's template parser makes of a replacement string: \\ is one
\* backslash, \n a newline, \t a tab, \1..\9 the text of that group, a
\* backslash before any other ASCII letter (or a reference to a group the
\* pattern does not have) raises re.error, and a backslash before anything
\* else stays as it is.  groups is the sequence of the match's group texts.
Raised == [raised |-> TRUE, s |-> <<>>]

RECURSIVE ExpandTemplate(_, _)
ExpandTemplate(tpl, groups) ==
    IF tpl = <<>> THEN [raised |-> FALSE, s |-> <<>>]
    ELSE IF Head(tpl) # BS
    THEN LET r == ExpandTemplate(Tail(tpl), groups)
         IN  IF r.raised THEN Raised ELSE [raised |-> FALSE, s |-> <<Head(tpl)>> \o r.s]
    ELSE IF Len(tpl) = 1 THEN Raised
    ELSE LET c == tpl[2]
             rest == SubSeq(tpl, 3, Len(tpl))
             r == ExpandTemplate(rest, groups)
             put(x) == IF r.raised THEN Raised ELSE [raised |-> FALSE, s |-> x \o r.s]
         IN  IF c = BS THEN put(<<BS>>)
             ELSE IF c = "n" THEN put(<<NL>>)
             ELSE IF c = "t" THEN put(<<"\t">>)
             ELSE IF c \in {"1", "2", "3"}
                  THEN LET g == IF c = "1" THEN 1 ELSE IF c = "2" THEN 2 ELSE 3
                       IN  IF g > Len(groups) \/ (rest # <<>> /\ Head(rest) \in {"1", "2", "3"})
                           THEN Raised
                           ELSE put(groups[g])
             ELSE IF IsLetter(c) THEN Raised
             ELSE put(<<BS, c>>)

\* --------------------------------------------------- attribute assignment

\* The match of (\s+NAME\s*=\s*)(["'])(.*?)\2 that starts at offset i, or
\* NoMatch.  \s+ takes the whole whitespace run (a shorter run would have
\* NAME start on whitespace); .*? stops at the first closing quote and
\* crosses no newline (the pattern is compiled without re.DOTALL).  Fields:
\* s..e the match, q the offset of the opening quote (group 2), e the
\* offset of the closing quote.
NoMatch == [found |-> FALSE, s |-> 0, q |-> 0, e |-> 0]

AttrMatchAt(t, i, name) ==
    LET Value(q, e) ==
            IF e = 0 THEN NoMatch
            ELSE IF \E k \in (q + 1)..(e - 1) : t[k] = NL THEN NoMatch
            ELSE [found |-> TRUE, s |-> i, q |-> q, e |-> e]
        Quote(q) ==
            IF ~(q <= Len(t) /\ t[q] \in {DQ, SQ}) THEN NoMatch
            ELSE Value(q, Find(t, <<t[q]>>, q + 1))
        Eq(eq) == IF ~HasAt(t, eq, <<"=">>) THEN NoMatch ELSE Quote(WsEnd(t, eq + 1))
        Name(n0) == IF ~HasAt(t, n0, name) THEN NoMatch ELSE Eq(WsEnd(t, n0 + Len(name)))
    IN  IF ~(i <= Len(t) /\ IsWs(t[i])) THEN NoMatch ELSE Name(WsEnd(t, i))

\* pattern.search(tag_text): the leftmost match.
AttrSearch(t, name) ==
    LET Leftmost(starts) == IF starts = {} THEN NoMatch ELSE AttrMatchAt(t, SetMin(starts), name)
    IN  Leftmost({i \in 1..Len(t) : AttrMatchAt(t, i, name).found})

\* The result of a tag rewrite: the new tag text, the changed flag, and
\* whether the call raised (re.error out of pattern.sub).
TagResult(text, changed) == [text |-> text, changed |-> changed, raised |-> FALSE]

TagRaised(text) == [text |-> text, changed |-> FALSE, raised |-> TRUE]

\* With the attribute present, the replacement m.group(1) + quote + escaped
\* + quote goes to pattern.sub as a template; without it, the assignment is
\* inserted before the closing /> or >.
set_attr_in_tag(tag_text, name, value) ==
    LET Sub(m, x) ==
            IF x.raised THEN TagRaised(tag_text)
            ELSE TagResult(Slice(tag_text, 1, m.s - 1) \o x.s
                             \o Slice(tag_text, m.e + 1, Len(tag_text)), TRUE)
        Replace(m, g1, quote, g3) ==
            Sub(m, ExpandTemplate(g1 \o <<quote>> \o escape_attr(value, quote) \o <<quote>>,
                                  <<g1, <<quote>>, g3>>))
        At(insert, idx) ==
            TagResult(Slice(tag_text, 1, idx - 1) \o insert
                        \o Slice(tag_text, idx, Len(tag_text)), TRUE)
        Insert(insert) ==
            IF RStripEndsWith(tag_text, <<"/", ">">>) THEN At(insert, RFind(tag_text, <<"/", ">">>))
            ELSE IF RStripEndsWith(tag_text, <<">">>) THEN At(insert, RFind(tag_text, <<">">>))
            ELSE TagResult(tag_text, FALSE)
        With(m) ==
            IF m.found
            THEN Replace(m, Slice(tag_text, m.s, m.q - 1), tag_text[m.q],
                         Slice(tag_text, m.q + 1, m.e - 1))
            ELSE Insert(<<SP>> \o name \o <<"=", DQ>> \o escape_attr(value, DQ) \o <<DQ>>)
    IN  With(AttrSearch(tag_text, name))

del_attr_in_tag(tag_text, name) ==
    LET With(m) ==
            IF ~m.found THEN TagResult(tag_text, FALSE)
            ELSE TagResult(Slice(tag_text, 1, m.s - 1)
                             \o Slice(tag_text, m.e + 1, Len(tag_text)), TRUE)
    IN  With(AttrSearch(tag_text, name))

\* ------------------------------------------------------ surgical mutators

\* line_starts(text): the offset of the first character of every line.
line_starts(text) ==
    LET RECURSIVE asc(_, _)
        asc(S, acc) == IF S = {} THEN acc
                       ELSE asc(S \ {SetMin(S)}, Append(acc, SetMin(S) + 1))
    IN  asc({k \in 1..Len(text) : text[k] = NL}, <<1>>)

\* local_tag(tag): a Clark name {uri}local without its {uri}.
local_tag(tag) ==
    LET After(close) == IF close = 0 THEN tag ELSE Slice(tag, close + 1, Len(tag))
    IN  After(Find(tag, <<"}">>, 1))

\* A plausible slip: the quotes not tracked, the first `>` taken.
ScanAnyEnd(text, i, in_quote) == Find(text, <<">">>, i)

\* The scan of find_start_tag_span from offset i: the offset of the first
\* `>` outside a quoted region, 0 at the end of the text.  in_quote is the
\* open quote character, "" for None.
RECURSIVE ScanTagEnd(_, _, _)
ScanTagEnd(text, i, in_quote) ==
    IF i > Len(text) THEN 0
    ELSE IF text[i] \in {DQ, SQ}
    THEN ScanTagEnd(text, i + 1,
                    IF in_quote = "" THEN text[i]
                    ELSE IF in_quote = text[i] THEN "" ELSE in_quote)
    ELSE IF text[i] = ">" /\ in_quote = "" THEN i
    ELSE ScanTagEnd(text, i + 1, in_quote)

NoSpan == [found |-> FALSE, start |-> 0, end |-> 0]

\* start = text.find("<" + tag, line_start), or text.find("<", line_start)
\* if there is none; then the scan for the end.
find_start_tag_span(text, line_start, tag) ==
    LET To(start, e) == IF e = 0 THEN NoSpan ELSE [found |-> TRUE, start |-> start, end |-> e]
        From(start) == IF start = 0 THEN NoSpan ELSE To(start, ScanTagEnd(text, start, ""))
        OrAny(first) == IF first = 0 THEN Find(text, <<"<">>, line_start) ELSE first
    IN  From(OrAny(Find(text, <<"<">> \o tag, line_start)))

\* An edit as the mutators record it: (start, end, new text).
Edit(start, end, new) == [start |-> start, end |-> end, new |-> new]

\* A plausible slip: the edits applied in the order they were recorded.
Unsorted(edits) == edits

\* The edits sorted by start, descending (sorted(..., reverse=True)); the
\* starts are distinct.
RECURSIVE SortDesc(_)
SortDesc(edits) ==
    LET First(at) ==
            <<edits[at]>> \o SortDesc(Slice(edits, 1, at - 1) \o Slice(edits, at + 1, Len(edits)))
        AtStart(top) == First(SetMin({k \in 1..Len(edits) : edits[k].start = top}))
    IN  IF edits = <<>> THEN <<>>
        ELSE AtStart(SetMax({edits[k].start : k \in 1..Len(edits)}))

\* text = text[:start] + new + text[end + skip:], edit after edit; skip is 1
\* in apply_attr_surgical (end + 1) and 0 in apply_text_surgical (end).
RECURSIVE ApplyEdits(_, _, _)
ApplyEdits(text, edits, skip) ==
    IF edits = <<>> THEN text
    ELSE ApplyEdits(Slice(text, 1, Head(edits).start - 1) \o Head(edits).new
                      \o Slice(text, Head(edits).end + skip, Len(text)),
                    Tail(edits), skip)

\* What a surgical mutator returns: the text, the change count, the edits it
\* recorded, and how it ended: "ok", "fail" (fail(): SystemExit) or "raise"
\* (an exception nothing catches).
SurgResult(text, edits, end) ==
    [text |-> text, changed |-> Len(edits), edits |-> edits, end |-> end]

\* The edits and the seen set a loop has collected, and how it goes on.
NoEdits == [edits |-> <<>>, seen |-> {}, end |-> "ok"]

\* seen.add(start)
Seen(acc, start) == [acc EXCEPT !.seen = @ \cup {start}]

\* A plausible slip: the edit appended, the start not added to seen.
RecordedUnseen(acc, start, edit) == [acc EXCEPT !.edits = Append(@, edit)]

\* seen.add(start) and edits.append(edit)
Recorded(acc, start, edit) == [acc EXCEPT !.seen = @ \cup {start}, !.edits = Append(@, edit)]

\* The loop of apply_attr_surgical over elements[k..], with the edits and
\* the seen set so far.
RECURSIVE AttrLoop(_, _, _, _, _, _, _, _)
AttrLoop(text, starts, elements, k, name, value, set_value, acc) ==
    LET EditIf(span, tag_text, r) ==
            IF r.raised THEN [acc EXCEPT !.end = "raise"]
            ELSE IF r.changed /\ r.text # tag_text
            THEN Recorded(acc, span.start, Edit(span.start, span.end, r.text))
            ELSE Seen(acc, span.start)
        Rewrite(span, tag_text) ==
            EditIf(span, tag_text,
                   IF set_value THEN set_attr_in_tag(tag_text, name, value)
                   ELSE del_attr_in_tag(tag_text, name))
        AtSpan(span) ==
            IF ~span.found THEN acc
            ELSE IF span.start \in acc.seen THEN acc
            ELSE Rewrite(span, Slice(text, span.start, span.end))
        Step(el) ==
            IF el.sourceline <= 0 \/ el.sourceline > Len(starts) THEN acc
            ELSE AtSpan(find_start_tag_span(text, starts[el.sourceline], local_tag(el.tag)))
    IN  IF k > Len(elements) \/ acc.end # "ok" THEN acc
        ELSE AttrLoop(text, starts, elements, k + 1, name, value, set_value, Step(elements[k]))

\* After the loop: the edits applied from the last to the first.
ApplyAll(text, acc, skip) ==
    IF acc.end # "ok" THEN SurgResult(text, <<>>, acc.end)
    ELSE SurgResult(ApplyEdits(text, SortDesc(acc.edits), skip), acc.edits, "ok")

apply_attr_surgical(text, elements, name, value, set_value) ==
    ApplyAll(text,
             AttrLoop(text, line_starts(text), elements, 1, name, value, set_value, NoEdits),
             1)

LeastOr0(ps) == IF ps = {} THEN 0 ELSE SetMin(ps)

\* re.search(r"/\s*>\s*$", tag_text): the offset of the `/` of the match,
\* 0 if there is none.  tag_text ends with the `>` of the span.
SelfCloseAt(tag_text) ==
    LET Closes(g) ==
            /\ g <= Len(tag_text)
            /\ tag_text[g] = ">"
            /\ WsEnd(tag_text, g + 1) = Len(tag_text) + 1
    IN  LeastOr0({p \in 1..Len(tag_text) :
                    tag_text[p] = "/" /\ Closes(WsEnd(tag_text, p + 1))})

\* A plausible slip: a closing tag that is not found taken to be at the end
\* of the text.
end_tag_or_eof(text, tag, end) ==
    IF Find(text, <<"<", "/">> \o tag \o <<">">>, end + 1) = 0 THEN Len(text) + 1
    ELSE Find(text, <<"<", "/">> \o tag \o <<">">>, end + 1)

\* text.find(f"</{tag}>", end + 1), 0 for -1.
find_end_tag(text, tag, end) == Find(text, <<"<", "/">> \o tag \o <<">">>, end + 1)

\* A plausible slip: the check for child elements left out.
children_unchecked(el) == FALSE

\* if len(el): the element has child elements.
has_children(el) == el.len > 0

\* The loop of apply_text_surgical over elements[k..].  A self-closing tag
\* is rewritten by re.sub with ">" + escaped + "</tag>" as the template;
\* otherwise the text up to the end tag is the edit.
RECURSIVE TextLoop(_, _, _, _, _, _)
TextLoop(text, starts, elements, k, value, acc) ==
    LET Expanded(span, tag_text, sc, x) ==
            IF x.raised THEN [acc EXCEPT !.end = "raise"]
            ELSE Recorded(acc, span.start,
                          Edit(span.start, span.end, Slice(tag_text, 1, sc - 1) \o x.s))
        Inner(span, end_tag_idx) ==
            IF end_tag_idx = 0 THEN Seen(acc, span.start)
            ELSE Recorded(acc, span.start, Edit(span.end + 1, end_tag_idx, xml_escape(value, "")))
        EditAt(span, tag, tag_text, sc) ==
            IF sc # 0
            THEN Expanded(span, tag_text, sc,
                          ExpandTemplate(<<">">> \o xml_escape(value, "")
                                           \o <<"<", "/">> \o tag \o <<">">>, <<>>))
            ELSE Inner(span, find_end_tag(text, tag, span.end))
        Rewrite(span, tag, tag_text) == EditAt(span, tag, tag_text, SelfCloseAt(tag_text))
        AtSpan(span, tag) ==
            IF ~span.found THEN acc
            ELSE IF span.start \in acc.seen THEN acc
            ELSE Rewrite(span, tag, Slice(text, span.start, span.end))
        AtTag(line_start, tag) == AtSpan(find_start_tag_span(text, line_start, tag), tag)
        Step(el) ==
            IF has_children(el) THEN [acc EXCEPT !.end = "fail"]
            ELSE IF el.sourceline <= 0 \/ el.sourceline > Len(starts) THEN acc
            ELSE AtTag(starts[el.sourceline], local_tag(el.tag))
    IN  IF k > Len(elements) \/ acc.end # "ok" THEN acc
        ELSE TextLoop(text, starts, elements, k + 1, value, Step(elements[k]))

apply_text_surgical(text, elements, value) ==
    ApplyAll(text, TextLoop(text, line_starts(text), elements, 1, value, NoEdits), 0)

\* ------------------------------------------------------ bounds and inputs

\* The longest value string given to a command.
MaxValLen == 2

\* The characters a value is made of: a plain letter that is no template
\* escape (x), a letter that is one (n), both quotes, a character that XML
\* escaping rewrites, a backslash and a newline.
ValChars == {"x", "n", DQ, SQ, "&", BS, NL}

RECURSIVE SeqsUpTo(_, _)
SeqsUpTo(S, n) ==
    IF n = 0 THEN {<<>>}
    ELSE LET shorter == SeqsUpTo(S, n - 1)
         IN  shorter \cup {<<c>> \o s : c \in S, s \in {t \in shorter : Len(t) = n - 1}}

Values == SeqsUpTo(ValChars, MaxValLen)

\* An attribute assignment as it is written in a start tag: the whitespace
\* before it, its name, the text of its `=` (with the whitespace around
\* it), its quote character and the raw text between the quotes.
Attr(pre, name, eq, q, val) == [pre |-> pre, name |-> name, eq |-> eq, q |-> q, val |-> val]

AttrText(a) == a.pre \o a.name \o a.eq \o <<a.q>> \o a.val \o <<a.q>>

\* A start tag of a well-formed document, by its parts: the element name as
\* written, its attribute assignments (names unique), the whitespace before
\* the closing and whether the tag is self-closing.
TagOpen(tg) == <<"<">> \o tg.name \o Concat([k \in 1..Len(tg.attrs) |-> AttrText(tg.attrs[k])])

TagClose(tg) == IF tg.selfclose THEN <<"/", ">">> ELSE <<">">>

TagText(tg) == TagOpen(tg) \o tg.gap \o TagClose(tg)

NameId == <<"i", "d">>

NameK == <<"k">>

OtherQuote(q) == IF q = DQ THEN SQ ELSE DQ

\* The forms of an existing id assignment: either quote, `=` with or
\* without whitespace around it, and as old value a letter, nothing, the
\* other quote character, or a value that runs over a line break.
IdAttrs ==
    {Attr(<<SP>>, NameId, eq, q, val) :
        eq \in {<<"=">>, <<SP, "=", SP>>},
        q \in {DQ, SQ},
        val \in {<<"x">>, <<>>, <<"p", NL, "q">>}}
    \cup {Attr(<<SP>>, NameId, <<"=">>, q, <<OtherQuote(q)>>) : q \in {DQ, SQ}}

\* The forms of another attribute, k: a plain value in either quote, and a
\* value whose text itself reads like an assignment of id.
KAttrs ==
    {Attr(<<SP>>, NameK, <<"=">>, q, <<"y">>) : q \in {DQ, SQ}}
    \cup {Attr(<<SP>>, NameK, <<"=">>, DQ, <<"e", SP, "i", "d", "=", SQ, "1", SQ>>)}

AttrLists ==
    {<<>>} \cup {<<a>> : a \in IdAttrs \cup KAttrs}
    \cup {<<a, b>> : a \in IdAttrs, b \in KAttrs}
    \cup {<<b, a>> : a \in IdAttrs, b \in KAttrs}

Tags ==
    {[name |-> <<"a">>, attrs |-> al, gap |-> gap, selfclose |-> sc] :
        al \in AttrLists, gap \in {<<>>, <<SP>>}, sc \in BOOLEAN}

\* The offset of the attribute named n in tg.attrs, 0 if there is none.
AttrIndex(tg, n) ==
    LET ks == {k \in 1..Len(tg.attrs) : tg.attrs[k].name = n}
    IN  IF ks = {} THEN 0 ELSE SetMin(ks)

\* ------------------------------------------------------------- documents

\* The most child elements of a document's root.
MaxKids == 2

\* A document is <r>, its child elements and </r>, all on one line
\* (sep = <<>>) or each child on a line of its own (sep = <<NL>>).  A child
\* is written i, it (a name that starts like i) or p:i (i in a namespace);
\* it has no attribute or id="x"; it is self-closing or holds the text x.
KidTags ==
    {[name |-> nm, attrs |-> al, gap |-> <<>>, selfclose |-> sc] :
        nm \in {<<"i">>, <<"i", "t">>, <<"p", ":", "i">>},
        al \in {<<>>, <<Attr(<<SP>>, NameId, <<"=">>, DQ, <<"x">>)>>},
        sc \in BOOLEAN}

RootTag == [name |-> <<"r">>, attrs |-> <<>>, gap |-> <<>>, selfclose |-> FALSE]

Docs ==
    {[kids |-> ks, sep |-> sep] :
        ks \in UNION {[1..n -> KidTags] : n \in 0..MaxKids},
        sep \in {<<>>, <<NL>>}}

EndTag(nm) == <<"<", "/">> \o nm \o <<">">>

\* A child that holds a child element of its own, <k/>, in place of the
\* text x: its record has the field nested.
Nested(kt) == "nested" \in DOMAIN kt

\* What is written between the start tag and the end tag of a child.
Body(kt) == IF Nested(kt) THEN <<"<", "k", "/", ">">> ELSE <<"x">>

\* A child element as written: its start tag and, unless self-closing, its
\* content and end tag.
KidText(kt) == TagText(kt) \o (IF kt.selfclose THEN <<>> ELSE Body(kt) \o EndTag(kt.name))

\* The text of the document with tags[k] written for the start tag of child
\* k and tags[0] for that of the root.
RenderWith(d, tags) ==
    tags[0] \o d.sep
      \o Concat([k \in 1..Len(d.kids) |->
                   tags[k]
                     \o (IF d.kids[k].selfclose THEN <<>>
                         ELSE Body(d.kids[k]) \o EndTag(d.kids[k].name))
                     \o d.sep])
      \o EndTag(RootTag.name)

DocTag(d, k) == IF k = 0 THEN RootTag ELSE d.kids[k]

OwnTags(d) == [k \in 0..Len(d.kids) |-> TagText(DocTag(d, k))]

Render(d) == RenderWith(d, OwnTags(d))

\* The offset of the `<` of element k's start tag in Render(d).
RECURSIVE TagStart(_, _)
TagStart(d, k) ==
    IF k = 0 THEN 1
    ELSE IF k = 1 THEN Len(TagText(RootTag)) + Len(d.sep) + 1
    ELSE TagStart(d, k - 1) + Len(KidText(d.kids[k - 1])) + Len(d.sep)

\* The line the parser reports for element k: that of its start tag.
SourceLine(d, k) ==
    LET Line(text, before) == 1 + Cardinality({j \in 1..before : text[j] = NL})
    IN  Line(Render(d), TagStart(d, k) - 1)

\* el.tag: the name as written, or {u}local for a prefixed name.
ClarkTag(nm) ==
    LET colon == Find(nm, <<":">>, 1)
    IN  IF colon = 0 THEN nm ELSE <<"{", "u", "}">> \o Slice(nm, colon + 1, Len(nm))

\* What the mutators read of a matched element: el.tag, el.sourceline and
\* len(el); kid says which element of the document it is (0: the root).
Element(d, k) ==
    [tag |-> ClarkTag(DocTag(d, k).name),
     sourceline |-> SourceLine(d, k),
     len |-> IF k = 0 THEN Len(d.kids) ELSE IF Nested(d.kids[k]) THEN 1 ELSE 0,
     kid |-> k]

\* A set of elements in document order, as a structural query returns it.
RECURSIVE InOrder(_, _)
InOrder(d, S) ==
    IF S = {} THEN <<>>
    ELSE LET k == SetMin(S) IN <<Element(d, k)>> \o InOrder(d, S \ {k})

MatchLists(d) == {InOrder(d, S) : S \in SUBSET (0..Len(d.kids))}

\* The values given to the surgical commands: a new value, the value the
\* documents already hold, one that XML escaping rewrites, and one with a
\* backslash.
SurgValues == {<<"v">>, <<"x">>, <<"&">>, <<BS, "n">>}

\* ------------------------------------------------------ structural mutators

EmptyTree == [text |-> <<>>, kids |-> <<>>]

\* An element of the parsed tree: id tells the objects apart (the children
\* of the root are 1, 2, ... as parsed, the root is 0, copies of fragment
\* nodes get fresh ids), text is el.text, tail is el.tail, kids its child
\* elements.  The empty sequence stands for None and for "".
Node(id, nm, attrs, text, tail, kids) ==
    [id |-> id, name |-> nm, attrs |-> attrs, text |-> text, tail |-> tail, kids |-> kids]

\* The tree etree.parse builds of a document: the root's text and its
\* child elements, each with the text after it as its tail; the child
\* element of a child is told apart by the negative of its parent's id.
TreeOf(d) ==
    [text |-> d.sep,
     kids |-> [k \in 1..Len(d.kids) |->
                 Node(k, d.kids[k].name, d.kids[k].attrs,
                      IF d.kids[k].selfclose \/ Nested(d.kids[k]) THEN <<>> ELSE <<"x">>,
                      d.sep,
                      IF ~d.kids[k].selfclose /\ Nested(d.kids[k])
                      THEN <<Node(0 - k, <<"k">>, <<>>, <<>>, <<>>, <<>>)>> ELSE <<>>)]]

\* tree.write(): an element without text and children is written
\* self-closing, attributes are written name="value".
RECURSIVE NodeXml(_)
NodeXml(n) ==
    <<"<">> \o n.name
      \o Concat([k \in 1..Len(n.attrs) |->
                   <<SP>> \o n.attrs[k].name \o <<"=", DQ>> \o n.attrs[k].val \o <<DQ>>])
      \o (IF n.text = <<>> /\ n.kids = <<>>
          THEN <<"/", ">">>
          ELSE <<">">> \o n.text
                 \o Concat([k \in 1..Len(n.kids) |-> NodeXml(n.kids[k])])
                 \o EndTag(n.name))
      \o n.tail

\* tree.write() of the document's element: the root with the attributes it
\* was parsed with, its text and its children.
tree_write(tree, attrs) == NodeXml(Node(0, RootTag.name, attrs, tree.text, <<>>, tree.kids))

UTF8 == <<"u", "t", "f", "-", "8">>

\* What the parser reports of the document: tree.docinfo.encoding (the
\* empty sequence for None) and tree.docinfo.doctype.
DocInfo(encoding, doctype) == [encoding |-> encoding, doctype |-> doctype]

NoDocInfo == DocInfo(<<>>, <<>>)

\* serialize(tree, has_decl, enc): what tree.write is asked for (the
\* encoding, whether to write a declaration, the doctype) and the element
\* it writes.
serialize(tree, attrs, docinfo, has_decl, enc) ==
    [encoding |-> IF enc # <<>> THEN enc
                  ELSE IF docinfo.encoding # <<>> THEN docinfo.encoding ELSE UTF8,
     xml_declaration |-> has_decl,
     doctype |-> docinfo.doctype,
     body |-> tree_write(tree, attrs)]

\* ws_only(text): text is not None and text.strip() == "".
ws_only(text) == \A k \in 1..Len(text) : IsWs(text[k])

\* infer_indent_from(text): the text if it is whitespace with a newline,
\* else None (the empty sequence).
infer_indent_from(text) ==
    IF text = <<>> THEN <<>>
    ELSE IF ~ws_only(text) THEN <<>>
    ELSE IF \A k \in 1..Len(text) : text[k] # NL THEN <<>>
    ELSE text

\* parent.index(el): the offset of the child with that id, 0 if none.
IndexOfId(kids, id) == LeastOr0({k \in 1..Len(kids) : kids[k].id = id})

\* A plausible slip: the parent's text consulted before the target's tail.
parent_first_indent(tree, id) ==
    IF infer_indent_from(tree.text) # <<>> THEN tree.text
    ELSE IF infer_indent_from(tree.kids[IndexOfId(tree.kids, id)].tail) # <<>>
    THEN tree.kids[IndexOfId(tree.kids, id)].tail
    ELSE <<NL>>

\* sibling_indent(target), target a child of the root: by its tail, else
\* by the text of its parent.
sibling_indent(tree, id) ==
    LET Of(tail) ==
            IF infer_indent_from(tail) # <<>> THEN tail
            ELSE IF infer_indent_from(tree.text) # <<>> THEN tree.text
            ELSE <<NL>>
    IN  Of(tree.kids[IndexOfId(tree.kids, id)].tail)

\* child_indent(parent), given the parent's text and children.
child_indent(text, kids) ==
    IF infer_indent_from(text) # <<>> THEN text
    ELSE IF Len(kids) > 0 /\ infer_indent_from(kids[Len(kids)].tail) # <<>>
    THEN kids[Len(kids)].tail
    ELSE <<NL>>

\* The --indent option: given or not, and its string.
NoIndent == [given |-> FALSE, s |-> <<>>]

\* tail = indent_override or <inferred>: an override that is the empty
\* string is falsy and gives way to the inferred tail.
TailFor(indent_override, inferred) ==
    IF indent_override.given /\ indent_override.s # <<>> THEN indent_override.s ELSE inferred

\* A plausible slip: the fragment's nodes themselves attached, not copies.
Uncopied(nodes, tail, next) == [j \in 1..Len(nodes) |-> [nodes[j] EXCEPT !.tail = tail]]

\* clones = [copy.deepcopy(n) for n in nodes]; set_tails(clones, tail).
\* The copies are new objects: ids next+1, next+2, ...
Clones(nodes, tail, next) ==
    [j \in 1..Len(nodes) |-> [nodes[j] EXCEPT !.id = next + j, !.tail = tail]]

\* parent.insert(idx, n) for each clone in turn, idx the Python index.
InsertAt(kids, idx, clones) ==
    Slice(kids, 1, idx) \o clones \o Slice(kids, idx + 1, Len(kids))

\* parent.remove(el): the element goes, and its tail with it.
RemoveId(kids, id) ==
    LET At(at) == IF at = 0 THEN kids ELSE Slice(kids, 1, at - 1) \o Slice(kids, at + 1, Len(kids))
    IN  At(IndexOfId(kids, id))

\* el.getparent() is None: el is the document's root.  A plausible slip:
\* the check left out.
NeverRoot(id) == FALSE

IsRoot(id) == id = 0

\* What a structural mutator has done so far: the tree, the change count,
\* the number of copies made, and how it ended ("ok", "exit" out of fail()
\* with the message in err, or "crash" for an exception nothing catches).
MutState(tree, changed, next, end, err) ==
    [tree |-> tree, changed |-> changed, next |-> next, end |-> end, err |-> err]

\* A plausible slip: one change counted per matched element, whatever the
\* number of nodes put in.
RegrownOnce(st, kids, n, made) ==
    [st EXCEPT !.tree.kids = kids, !.changed = @ + 1, !.next = @ + made]

\* The children of the root replaced, with n changes and made new objects.
Regrown(st, kids, n, made) ==
    [st EXCEPT !.tree.kids = kids, !.changed = @ + n, !.next = @ + made]

\* One round of the loop of apply_insert for the element with that id:
\* before and after put the copies beside the target in its parent,
\* inside-first and inside-last among the target's own children.
InsertOne(st, id, nodes, position, indent_override) ==
    LET Copies(inferred) == Clones(nodes, TailFor(indent_override, inferred), st.next)
        Grow(kids, clones) ==
            IF position = "inside-first" THEN InsertAt(kids, 0, clones) ELSE kids \o clones
        Siblings(at, clones) ==
            IF at = 0 THEN [st EXCEPT !.end = "crash", !.err = "ValueError"]
            ELSE Regrown(st, InsertAt(st.tree.kids, IF position = "after" THEN at ELSE at - 1, clones),
                         Len(clones), Len(clones))
        InsideRoot(clones) == Regrown(st, Grow(st.tree.kids, clones), Len(clones), Len(clones))
        InsideKid(at, clones) ==
            [st EXCEPT !.tree.kids[at].kids = Grow(@, clones),
                       !.changed = @ + Len(clones),
                       !.next = @ + Len(clones)]
        InsideKidAt(at) ==
            IF at = 0 THEN [st EXCEPT !.end = "crash", !.err = "ValueError"]
            ELSE InsideKid(at, Copies(child_indent(st.tree.kids[at].text, st.tree.kids[at].kids)))
    IN  IF position \in {"before", "after"}
        THEN IF IsRoot(id) THEN [st EXCEPT !.end = "exit", !.err = "root"]
             ELSE Siblings(IndexOfId(st.tree.kids, id), Copies(sibling_indent(st.tree, id)))
        ELSE IF id = 0 THEN InsideRoot(Copies(child_indent(st.tree.text, st.tree.kids)))
        ELSE InsideKidAt(IndexOfId(st.tree.kids, id))

\* One round of the loop of apply_replace: parent.insert(idx, n) for each
\* clone, then parent.remove(el).
ReplaceOne(st, id, nodes, indent_override) ==
    LET At(at, clones) ==
            IF at = 0 THEN [st EXCEPT !.end = "crash", !.err = "ValueError"]
            ELSE Regrown(st, RemoveId(InsertAt(st.tree.kids, at - 1, clones), id), 1, Len(clones))
    IN  IF IsRoot(id) THEN [st EXCEPT !.end = "exit", !.err = "root"]
        ELSE At(IndexOfId(st.tree.kids, id),
                Clones(nodes, TailFor(indent_override, sibling_indent(st.tree, id)), st.next))

\* One round of the loop of apply_delete.
DeleteOne(st, id) ==
    IF IsRoot(id) THEN [st EXCEPT !.end = "exit", !.err = "root"]
    ELSE [st EXCEPT !.tree.kids = RemoveId(@, id), !.changed = @ + 1]

\* for el in elements: ..., from element k on, until a round fails.
RECURSIVE MutLoop(_, _, _, _)
MutLoop(st, ids, k, args) ==
    IF k > Len(ids) \/ st.end # "ok" THEN st
    ELSE MutLoop(IF args.cmd = "insert"
                 THEN InsertOne(st, ids[k], args.nodes, args.position, args.indent)
                 ELSE IF args.cmd = "replace"
                 THEN ReplaceOne(st, ids[k], args.nodes, args.indent)
                 ELSE DeleteOne(st, ids[k]),
                 ids, k + 1, args)

\* apply_insert / apply_replace / apply_delete on the ids of the elements.
apply_structural(tree, ids, args) ==
    MutLoop(MutState(tree, 0, Len(tree.kids), "ok", "none"), ids, 1, args)

\* ------------------------------------------------------- the command line

\* The most files a batch names.
NFiles == 2

\* A path argument: a literal path p, or a pattern (with one of *?[]) that
\* matches every file that exists.
Literal(p) == [glob |-> FALSE, p |-> p]

Pattern == [glob |-> TRUE, p |-> 0]

RECURSIVE Sorted(_)
Sorted(S) == IF S = {} THEN <<>> ELSE <<SetMin(S)>> \o Sorted(S \ {SetMin(S)})

\* The second loop of expand_paths: the first occurrence of every path.
RECURSIVE Dedup(_, _)
Dedup(paths, seen) ==
    IF paths = <<>> THEN <<>>
    ELSE IF Head(paths) \in seen THEN Dedup(Tail(paths), seen)
    ELSE <<Head(paths)>> \o Dedup(Tail(paths), seen \cup {Head(paths)})

\* expand_paths(raw_paths), existing the set of paths glob.glob finds.
expand_paths(raw_paths, existing) ==
    Dedup(Concat([k \in 1..Len(raw_paths) |->
                    IF raw_paths[k].glob THEN Sorted(existing) ELSE <<raw_paths[k].p>>]),
          {})

\* The --limit option: given or not, and its number.
NoLimit == [given |-> FALSE, n |-> 0]

Limit(n) == [given |-> TRUE, n |-> n]

\* A plausible slip: the limit not applied.
limit_ignored(items, limit_count) == items

\* limit(items, limit_count): items[:limit_count], which for a negative
\* count drops that many items from the end.
limit(items, limit_count) ==
    IF ~limit_count.given THEN items
    ELSE IF limit_count.n >= 0 THEN Slice(items, 1, SetMin({limit_count.n, Len(items)}))
    ELSE Slice(items, 1, SetMax({0, Len(items) + limit_count.n}))

\* An item of a query result: element k of the document (0: the root), or
\* something that is no element (the value of an attribute of element k).
Item(isel, k) == [elem |-> isel, kid |-> k]

\* select(tree, xpath, ns_map) for the queries of the model: "kids" the
\* children of the root, "all" the root and its children, "rev" the same
\* elements in a list that has the root last (the mutators take the list in
\* whatever order it is handed to them), "attr" the id attributes, "mixed"
\* the children of the root and the id attributes (//i | //@id), in
\* document order: an attribute follows the element that bears it.
select(d, xpath) ==
    LET n == Len(d.kids)
    IN  IF xpath = "kids" THEN [k \in 1..n |-> Item(TRUE, k)]
        ELSE IF xpath = "mixed"
        THEN Concat([k \in 1..n |->
                        IF d.kids[k].attrs # <<>> THEN <<Item(TRUE, k), Item(FALSE, k)>>
                        ELSE <<Item(TRUE, k)>>])
        ELSE IF xpath = "all" THEN [k \in 1..(n + 1) |-> Item(TRUE, k - 1)]
        ELSE IF xpath = "rev" THEN [k \in 1..(n + 1) |-> Item(TRUE, n + 1 - k)]
        ELSE [j \in 1..Cardinality({k \in 1..n : d.kids[k].attrs # <<>>}) |->
                 Item(FALSE, Sorted({k \in 1..n : d.kids[k].attrs # <<>>})[j])]

\* ensure_elements(items): whether every item is an element.
ensure_elements(items) == \A k \in 1..Len(items) : items[k].elem

\* A plausible slip: the persist flag not consulted.
WriteIfChanged(changed, in_place) == changed # 0

\* if changed and args.in_place: the write decision.
ShouldWrite(changed, in_place) == changed # 0 /\ in_place

\* The file at a path: a document (kind "doc"), a document whose last
\* character is missing, so that it does not parse unless --recover is
\* given ("bad"), or a file that cannot be opened ("unreadable").
File(kind, d) == [kind |-> kind, d |-> d]

Bytes(f) ==
    IF f.kind = "bad" THEN Slice(Render(f.d), 1, Len(Render(f.d)) - 1) ELSE Render(f.d)

\* What happened to one file of the batch: how far its round of the loop
\* got (end is "ok", or "exit" out of fail(), or "crash" for an exception
\* nothing catches), the query result, the elements handed to the mutator
\* (by their ids), the tree in memory when the round ended, the change
\* count, the updated bytes and the write decision.
Round(path, end, err, items, handed, tree, changed, updated, wrote) ==
    [path |-> path, end |-> end, err |-> err, items |-> items, handed |-> handed,
     tree |-> tree, changed |-> changed, updated |-> updated, wrote |-> wrote]

Ids(items) == [k \in 1..Len(items) |-> items[k].kid]

\* The body of the loop over the paths, the same in mutate_files,
\* cmd_set_text, cmd_set_attr and cmd_del_attr but for the mutator:
\* parse_doc, select, limit, ensure_elements, the mutator, the updated bytes
\* and the write decision.
RunFile(path, f, args) ==
    LET Mutated(items, handed, tree, changed, updated) ==
            Round(path, "ok", "none", items, Ids(handed), tree, changed, updated,
                  ShouldWrite(changed, args.in_place))
        AfterStructural(items, handed, st) ==
            IF st.end # "ok"
            THEN Round(path, st.end, st.err, items, Ids(handed), st.tree, 0, <<>>, FALSE)
            ELSE Mutated(items, handed, st.tree, st.changed,
                         serialize(st.tree, <<>>, NoDocInfo, FALSE, <<>>).body)
        AfterSurgical(items, handed, tree, sr) ==
            IF sr.end = "fail"
            THEN Round(path, "exit", "children", items, Ids(handed), tree, 0, <<>>, FALSE)
            ELSE IF sr.end = "raise"
            THEN Round(path, "crash", "re.error", items, Ids(handed), tree, 0, <<>>, FALSE)
            ELSE Mutated(items, handed, tree, sr.changed, sr.text)
        Surgical(text, elements) ==
            IF args.cmd = "set-text" THEN apply_text_surgical(text, elements, args.value)
            ELSE apply_attr_surgical(text, elements, NameId, args.value, args.cmd = "set-attr")
        AfterLimit(items, handed) ==
            IF ~ensure_elements(handed)
            THEN Round(path, "exit", "select", items, <<>>, TreeOf(f.d), 0, <<>>, FALSE)
            ELSE IF args.cmd \in {"insert", "replace", "delete"}
            THEN AfterStructural(items, handed, apply_structural(TreeOf(f.d), Ids(handed), args))
            ELSE AfterSurgical(items, handed, TreeOf(f.d),
                               Surgical(Bytes(f),
                                        [k \in 1..Len(handed) |-> Element(f.d, handed[k].kid)]))
        AfterSelect(items) == AfterLimit(items, limit(items, args.limit))
    IN  IF f.kind = "unreadable"
        THEN Round(path, "crash", "read", <<>>, <<>>, EmptyTree, 0, <<>>, FALSE)
        ELSE IF f.kind = "bad" /\ ~args.recover
        THEN Round(path, "exit", "parse", <<>>, <<>>, EmptyTree, 0, <<>>, FALSE)
        ELSE AfterSelect(select(f.d, args.xpath))

\* summarize(path, matches, changed, wrote): the line printed.
summarize(path, matches, changed, wrote) ==
    [path |-> path, matches |-> matches, changed |-> changed,
     action |-> IF changed = 0 THEN "no changes" ELSE IF wrote THEN "written" ELSE "dry-run"]

\* The fragment given to insert and replace: no node, or <a/><b/>.
Fragments ==
    {<<>>, <<Node(0, <<"a">>, <<>>, <<>>, <<>>, <<>>), Node(0, <<"b">>, <<>>, <<>>, <<>>, <<>>)>>}

\* The queries of the model (see select).
Queries == {"kids", "all", "rev", "attr", "mixed"}

Args(cmd, position, nodes, reformat_ok, in_place, lim, xpath, recover) ==
    [cmd |-> cmd, position |-> position, nodes |-> nodes, indent |-> NoIndent,
     value |-> <<"v">>, reformat_ok |-> reformat_ok, in_place |-> in_place,
     limit |-> lim, xpath |-> xpath, recover |-> recover, paths |-> <<Pattern>>,
     xml |-> "ok"]

\* The command lines of the model: --limit absent, 1 or 2; every query;
\* every flag on and off.  The surgical commands have no --reformat-ok
\* option.  The field xml is "ok" where --xml holds the fragment in nodes
\* and "bad" where its text does not parse (insert and replace, all matched
\* children, each of the flags on and off).
CommandLines ==
    LET flags(cmd, position, nodes, oks) ==
            {Args(cmd, position, nodes, ok, ip, lim, xp, rc) :
                ok \in oks, ip \in BOOLEAN, lim \in {NoLimit, Limit(1), Limit(2)},
                xp \in Queries, rc \in BOOLEAN}
    IN  UNION ({flags("insert", pos, nodes, BOOLEAN) :
                    pos \in {"before", "after", "inside-first", "inside-last"},
                    nodes \in Fragments}
               \cup {flags("replace", "none", nodes, BOOLEAN) : nodes \in Fragments}
               \cup {flags("delete", "none", <<>>, BOOLEAN)}
               \cup {flags(cmd, "none", <<>>, {FALSE}) : cmd \in {"set-text", "set-attr", "del-attr"}}
               \cup {{[Args(cmd, IF cmd = "insert" THEN "after" ELSE "none", <<>>,
                             ok, ip, NoLimit, "kids", FALSE) EXCEPT !.xml = "bad"] :
                          ok \in BOOLEAN, ip \in BOOLEAN} : cmd \in {"insert", "replace"}})

EmptyDoc == [kids |-> <<>>, sep |-> <<>>]

\* The files of the model: <r></r>; a document of two children, one
\* self-closing and one with an id and a text, each on its own line; the
\* latter cut short; and a file that cannot be opened.
BatchDoc ==
    [kids |-> <<[name |-> <<"i">>, attrs |-> <<>>, gap |-> <<>>, selfclose |-> TRUE],
                [name |-> <<"i">>, attrs |-> <<Attr(<<SP>>, NameId, <<"=">>, DQ, <<"x">>)>>,
                 gap |-> <<>>, selfclose |-> FALSE]>>,
     sep |-> <<NL>>]

Files ==
    {File("doc", EmptyDoc), File("doc", BatchDoc), File("bad", BatchDoc),
     File("unreadable", EmptyDoc)}

\* --------------------------------------------- the header of the bytes

\* The bytes of data[:200] that the encoding is searched in.
HeadLen == 200

XmlDeclOpen == <<"<", "?", "x", "m", "l">>

EncodingEq == <<"e", "n", "c", "o", "d", "i", "n", "g", "=">>

\* re.match(br"\s*<\?xml\s+[^>]*\?>", data): after leading whitespace
\* `<?xml`, a whitespace character, and `?>` at the first `>` after it.
DeclMatch(data) ==
    LET Closed(g, from) == g # 0 /\ g - 1 >= from /\ data[g - 1] = "?"
        Rest(j) ==
            /\ j <= Len(data)
            /\ IsWs(data[j])
            /\ Closed(Find(data, <<">">>, j + 1), j + 1)
        At(i) == HasAt(data, i, XmlDeclOpen) /\ Rest(i + Len(XmlDeclOpen))
    IN  At(WsEnd(data, 1))

\* re.search(br"encoding=[\"']([^\"']+)[\"']", head): group 1 of the
\* leftmost match, the empty sequence if there is none.  The closing quote
\* is the first quote character of either kind after the opening one.
EncodingSearch(head) ==
    LET Quotes(from) == {e \in from..Len(head) : head[e] \in {DQ, SQ}}
        Value(q, e) == IF e > q + 1 THEN Slice(head, q + 1, e - 1) ELSE <<>>
        Group(q) ==
            IF ~(q <= Len(head) /\ head[q] \in {DQ, SQ}) THEN <<>>
            ELSE Value(q, LeastOr0(Quotes(q + 1)))
        At(i) == IF HasAt(head, i, EncodingEq) THEN Group(i + Len(EncodingEq)) ELSE <<>>
        Leftmost(starts) == IF starts = {} THEN <<>> ELSE At(SetMin(starts))
    IN  Leftmost({i \in 1..Len(head) : At(i) # <<>>})

\* detect_decl_and_encoding(data): has_decl and enc (the empty sequence
\* for None).
detect_decl_and_encoding(data) ==
    IF DeclMatch(data)
    THEN [has_decl |-> TRUE, enc |-> EncodingSearch(Slice(data, 1, SetMin({HeadLen, Len(data)})))]
    ELSE [has_decl |-> FALSE, enc |-> <<>>]

\* What stands before the root element of a file and in its start tag: no
\* declaration ("none"), one that names a version only ("version") or one
\* that names an encoding too ("encoding", in either quote); a document
\* type declaration or none; on the root an attribute encoding="m" or
\* none; and the encoding the parser reports where none is declared.
Prolog(decl, q, doctype, attr, reported) ==
    [decl |-> decl, q |-> q, doctype |-> doctype, attr |-> attr, reported |-> reported]

NoProlog == Prolog("none", DQ, FALSE, FALSE, <<>>)

\* The encoding a declaration of the model names.
Latin1 == <<"l", "1">>

Prologs ==
    {Prolog("none", DQ, dt, at, rp) : dt \in BOOLEAN, at \in BOOLEAN, rp \in {<<>>, UTF8}}
    \cup {Prolog("version", DQ, dt, at, rp) : dt \in BOOLEAN, at \in BOOLEAN, rp \in {<<>>, UTF8}}
    \cup {Prolog("encoding", q, dt, at, Latin1) : q \in {DQ, SQ}, dt \in BOOLEAN, at \in BOOLEAN}

VersionText == <<SP, "v", "e", "r", "s", "i", "o", "n", "=", DQ, "1", ".", "0", DQ>>

DeclText(h) ==
    IF h.decl = "none" THEN <<>>
    ELSE XmlDeclOpen \o VersionText
           \o (IF h.decl = "encoding"
               THEN <<SP>> \o EncodingEq \o <<h.q>> \o Latin1 \o <<h.q>> ELSE <<>>)
           \o <<"?", ">", NL>>

DoctypeText(h) ==
    IF h.doctype THEN <<"<", "!", "D", "O", "C", "T", "Y", "P", "E", SP, "r", ">">> ELSE <<>>

\* The attributes of the root element.
RootAttrs(h) ==
    IF h.attr THEN <<Attr(<<SP>>, Slice(EncodingEq, 1, 8), <<"=">>, DQ, <<"m">>)>> ELSE <<>>

\* The bytes of the file: the declaration, the document type declaration
\* and the document's element.
Data(h, tree) ==
    DeclText(h)
      \o (IF h.doctype THEN DoctypeText(h) \o <<NL>> ELSE <<>>)
      \o tree_write(tree, RootAttrs(h))

\* tree.docinfo of the parsed bytes.
DocInfoOf(h) == DocInfo(h.reported, DoctypeText(h))

\* ------------------------------------ the inputs of the structural mutators

\* The most child elements of the root of a tree.
MaxTreeKids == 2

\* The texts before and after elements: none, a newline, a newline and a
\* space, a space, a letter.
Texts == {<<>>, <<NL>>, <<NL, SP>>, <<SP>>, <<"t">>}

\* The trees: a root with its text and children i, each with its tail.
Trees ==
    {[text |-> t,
      kids |-> [k \in 1..Len(tails) |-> Node(k, <<"i">>, <<>>, <<>>, tails[k], <<>>)]] :
        t \in Texts, tails \in UNION {[1..n -> Texts] : n \in 0..MaxTreeKids}}

\* The lists of elements of a tree in document order, by their ids.
IdLists(tree) == {Sorted(S) : S \in SUBSET (0..Len(tree.kids))}

\* --indent absent, the empty string, or a tab.
IndentOptions == {NoIndent, [given |-> TRUE, s |-> <<>>], [given |-> TRUE, s |-> <<"\t">>]}

StructArgs(cmd, position, nodes, indent) ==
    [cmd |-> cmd, position |-> position, nodes |-> nodes, indent |-> indent]

NoStructArgs == StructArgs("delete", "none", <<>>, NoIndent)

NoOutput == serialize(EmptyTree, <<>>, NoDocInfo, FALSE, <<>>)

\* ------------------------------------------------------------------ state

VARIABLES
    tg,          \* the start tag handed to the tag functions, by its parts
    arg_tag,    \* its text: the arg_tag argument
    arg_name,        \* the arg_name argument
    arg_value,       \* the arg_value argument
    tag_res,     \* the result of the first call
    tag_res2,    \* the result of calling set_attr_in_tag again on tag_res
    tag_pc,      \* "init", then "set" / "set2" / "del"; "off" in other specifications
    doc,         \* the document a surgical mutator works on, by its parts
    s_text,      \* its text: the text argument
    s_elems,     \* the matched elements: the elements argument
    s_value,     \* the value argument
    s_res,       \* what the mutator returned
    s_pc,        \* "init", then "set-attr" / "del-attr" / "set-text"; "off" elsewhere
    b_args,      \* the parsed command line: args
    b_files,     \* the files as they were when the command started, by path
    disk,        \* the bytes of each file now
    b_paths,     \* paths: the expanded path list
    b_idx,       \* the offset in paths of the file the loop is at
    b_rounds,    \* what happened to each file the loop has been at
    b_out,       \* the summary lines printed
    b_writes,    \* the paths opened for writing
    b_err,       \* the failure the command ended on, "none" if none
    b_pc,        \* "main", then "mutate_files", "loop", and at the end "done"
                 \* (exit code 0), "exit" (SystemExit out of fail) or "crash"
                 \* (an exception nothing catches); "off" in other specifications
    m_head,      \* what stands before and in the root tag of the bytes parsed
    m_tree,      \* the tree parse_doc built of them
    m_ids,       \* the elements handed to the structural mutator, by their ids
    m_args,      \* the mutator's arguments: command, position, nodes, indent
    m_res,       \* the tree after the mutator, its change count and how it ended
    m_out,       \* what serialize returned
    m_pc,        \* "init", then "insert" / "replace" / "delete"; "off" elsewhere
    f_text,      \* the text given to find_start_tag_span
    f_from,      \* its line_start argument, as an offset from 1
    f_tag,       \* its tag argument
    f_span,      \* what it returned
    f_pc         \* "init", then "found"; "off" elsewhere

tagVars == <<tg, arg_tag, arg_name, arg_value, tag_res, tag_res2, tag_pc>>

surgVars == <<doc, s_text, s_elems, s_value, s_res, s_pc>>

batchVars == <<b_args, b_files, disk, b_paths, b_idx, b_rounds, b_out, b_writes, b_err, b_pc>>

structVars == <<m_head, m_tree, m_ids, m_args, m_res, m_out, m_pc>>

spanVars == <<f_text, f_from, f_tag, f_span, f_pc>>

vars == <<tagVars, surgVars, batchVars, structVars, spanVars>>

NoTagResult == TagResult(<<>>, FALSE)

NoSurgResult == SurgResult(<<>>, <<>>, "ok")

\* The variables of the tag functions, where they are not in use.
TagOff ==
    /\ tg = RootTag
    /\ arg_tag = <<>>
    /\ arg_name = NameId
    /\ arg_value = <<>>
    /\ tag_res = NoTagResult
    /\ tag_res2 = NoTagResult
    /\ tag_pc = "off"

\* The variables of the surgical mutators, where they are not in use.
SurgOff ==
    /\ doc = EmptyDoc
    /\ s_text = <<>>
    /\ s_elems = <<>>
    /\ s_value = <<>>
    /\ s_res = NoSurgResult
    /\ s_pc = "off"

\* The variables of the batch, where they are not in use.
BatchOff ==
    /\ b_args = Args("delete", "none", <<>>, FALSE, FALSE, NoLimit, "kids", FALSE)
    /\ b_files = <<>>
    /\ disk = <<>>
    /\ b_paths = <<>>
    /\ b_idx = 0
    /\ b_rounds = <<>>
    /\ b_out = <<>>
    /\ b_writes = {}
    /\ b_err = "none"
    /\ b_pc = "off"

\* The variables of the structural mutators, where they are not in use.
StructOff ==
    /\ m_head = NoProlog
    /\ m_tree = EmptyTree
    /\ m_ids = <<>>
    /\ m_args = NoStructArgs
    /\ m_res = MutState(EmptyTree, 0, 0, "ok", "none")
    /\ m_out = NoOutput
    /\ m_pc = "off"

\* The variables of find_start_tag_span, where they are not in use.
SpanOff ==
    /\ f_text = <<>>
    /\ f_from = 1
    /\ f_tag = <<>>
    /\ f_span = NoSpan
    /\ f_pc = "off"

\* ------------------------------------------- the tag functions on their own

TagInit ==
    /\ tg \in Tags
    /\ arg_tag = TagText(tg)
    /\ arg_name = NameId
    /\ arg_value \in Values
    /\ tag_res = NoTagResult
    /\ tag_res2 = NoTagResult
    /\ tag_pc = "init"
    /\ SurgOff
    /\ BatchOff
    /\ StructOff
    /\ SpanOff

SetAttr ==
    /\ tag_pc = "init"
    /\ tag_res' = set_attr_in_tag(arg_tag, arg_name, arg_value)
    /\ tag_pc' = "set"
    /\ UNCHANGED <<tg, arg_tag, arg_name, arg_value, tag_res2, surgVars, batchVars, structVars, spanVars>>

SetAttrAgain ==
    /\ tag_pc = "set"
    /\ ~tag_res.raised
    /\ tag_res2' = set_attr_in_tag(tag_res.text, arg_name, arg_value)
    /\ tag_pc' = "set2"
    /\ UNCHANGED <<tg, arg_tag, arg_name, arg_value, tag_res, surgVars, batchVars, structVars, spanVars>>

DelAttr ==
    /\ tag_pc = "init"
    /\ tag_res' = del_attr_in_tag(arg_tag, arg_name)
    /\ tag_pc' = "del"
    /\ UNCHANGED <<tg, arg_tag, arg_name, arg_value, tag_res2, surgVars, batchVars, structVars, spanVars>>

TagNext == SetAttr \/ SetAttrAgain \/ DelAttr

SpecTag == TagInit /\ [][TagNext]_vars


\* --------------------------------------------- claims on the tag functions

\* The tag tg with the value text of its k-th assignment replaced by val.
WithAttrValue(tg_, k, val) ==
    [tg_ EXCEPT !.attrs = [tg_.attrs EXCEPT ![k] = [tg_.attrs[k] EXCEPT !.val = val]]]

\* The tag tg without its k-th assignment.
WithoutAttr(tg_, k) ==
    [tg_ EXCEPT !.attrs = Slice(tg_.attrs, 1, k - 1) \o Slice(tg_.attrs, k + 1, Len(tg_.attrs))]

\* C7: set_attr_in_tag is idempotent on the tag text: a second call with
\* the same name and value on the result of the first returns the text the
\* first call returned.
C7_SetAttrIdempotent ==
    tag_pc = "set2" => (~tag_res2.raised /\ tag_res2.text = tag_res.text)

\* C8: when the tag has an assignment of the named attribute, set_attr_in_tag
\* returns the tag with only the value of that assignment replaced, for every
\* value: the quote character is kept, the value is escaped for that quote
\* character, every other character of the tag is as before.
C8_SetAttrReplacesValue ==
    (tag_pc = "set" /\ AttrIndex(tg, arg_name) # 0) =>
        LET k == AttrIndex(tg, arg_name)
        IN  /\ ~tag_res.raised
            /\ tag_res.changed
            /\ tag_res.text =
                 TagText(WithAttrValue(tg, k, escape_attr(arg_value, tg.attrs[k].q)))

\* C9: when the tag has no assignment of the named attribute, set_attr_in_tag
\* inserts ` name="escaped value"` right before the closing `/>` or `>` of the
\* tag and changes nothing else.
C9_SetAttrInsertsWhenAbsent ==
    (tag_pc = "set" /\ AttrIndex(tg, arg_name) = 0) =>
        /\ ~tag_res.raised
        /\ tag_res.changed
        /\ tag_res.text =
             TagOpen(tg) \o tg.gap
               \o <<SP>> \o arg_name \o <<"=", DQ>> \o xml_escape(arg_value, DQ) \o <<DQ>>
               \o TagClose(tg)

\* C10: del_attr_in_tag removes exactly the assignment of the named attribute
\* with the whitespace before it and returns changed = TRUE; when the tag has
\* no assignment of that name it returns the tag as it was, changed = FALSE.
C10_DelAttrRemovesAssignment ==
    tag_pc = "del" =>
        LET k == AttrIndex(tg, arg_name)
        IN  IF k = 0
            THEN tag_res.text = arg_tag /\ ~tag_res.changed
            ELSE tag_res.text = TagText(WithoutAttr(tg, k)) /\ tag_res.changed


\* ------------------------------------------- find_start_tag_span on its own

\* The longest text given to find_start_tag_span.
MaxSpanLen == 5

\* The texts: of `<`, `>`, both quotes and a letter.
SpanTexts == SeqsUpTo({"<", ">", DQ, SQ, "i"}, MaxSpanLen)

SpanInit ==
    /\ f_text \in SpanTexts
    /\ f_from \in 1..(Len(f_text) + 1)
    /\ f_tag \in {<<"i">>, <<"i", "i">>}
    /\ f_span = NoSpan
    /\ f_pc = "init"
    /\ TagOff
    /\ SurgOff
    /\ BatchOff
    /\ StructOff

FindSpan ==
    /\ f_pc = "init"
    /\ f_span' = find_start_tag_span(f_text, f_from, f_tag)
    /\ f_pc' = "found"
    /\ UNCHANGED <<f_text, f_from, f_tag, tagVars, surgVars, batchVars, structVars>>

SpanNext == FindSpan

SpecSpan == SpanInit /\ [][SpanNext]_vars

\* The quote that is open before the character at offset q is read, the
\* quotes counted from offset a on: "" if none is.
RECURSIVE OpenQuote(_, _)
OpenQuote(a, q) ==
    LET After(before, ch) ==
            IF ch \notin {DQ, SQ} THEN before
            ELSE IF before = "" THEN ch
            ELSE IF before = ch THEN "" ELSE before
    IN  IF q <= a THEN "" ELSE After(OpenQuote(a, q - 1), f_text[q - 1])

\* The offsets at which a tag that starts at offset a can end: a `>` with
\* no quote open.
Closings(a) == {q \in a..Len(f_text) : f_text[q] = ">" /\ OpenQuote(a, q) = ""}

\* The offsets at or after the search offset where `<` and the tag stand,
\* and those where a `<` stands.
TagOpens == {p \in f_from..Len(f_text) : HasAt(f_text, p, <<"<">> \o f_tag)}

AnyOpens == {p \in f_from..Len(f_text) : f_text[p] = "<"}

\* C26: find_start_tag_span returns a span that starts at a `<` at or after
\* the search offset (the first `<` followed by the tag, or the first `<`
\* if there is none) and ends at the first `>` from there on that is in no
\* open quote; it returns none exactly when there is no `<` at or after the
\* offset or no such `>` before the end of the text.
C26_SpanToUnquotedClose ==
    f_pc = "found" =>
        /\ f_span.found =>
              /\ f_span.start \in AnyOpens
              /\ f_span.start = IF TagOpens # {} THEN SetMin(TagOpens) ELSE SetMin(AnyOpens)
              /\ Closings(f_span.start) # {}
              /\ f_span.end = SetMin(Closings(f_span.start))
        /\ ~f_span.found =>
              \/ AnyOpens = {}
              \/ Closings(IF TagOpens # {} THEN SetMin(TagOpens) ELSE SetMin(AnyOpens)) = {}
        /\ AnyOpens = {} => ~f_span.found

\* C26 happens: the span found runs over a `>` that stands in a quote.
C26_QuotedCloseReached ==
    /\ f_pc = "found"
    /\ f_span.found
    /\ \E q \in f_span.start..(f_span.end - 1) : f_text[q] = ">"

\* ------------------------------------- the surgical mutators on a document

SurgInit ==
    /\ doc \in Docs
    /\ s_text = Render(doc)
    /\ s_elems \in MatchLists(doc)
    /\ s_value \in SurgValues
    /\ s_res = NoSurgResult
    /\ s_pc = "init"
    /\ TagOff
    /\ BatchOff
    /\ StructOff
    /\ SpanOff

SurgSetAttr ==
    /\ s_pc = "init"
    /\ s_res' = apply_attr_surgical(s_text, s_elems, NameId, s_value, TRUE)
    /\ s_pc' = "set-attr"
    /\ UNCHANGED <<doc, s_text, s_elems, s_value, tagVars, batchVars, structVars, spanVars>>

SurgDelAttr ==
    /\ s_pc = "init"
    /\ s_res' = apply_attr_surgical(s_text, s_elems, NameId, <<>>, FALSE)
    /\ s_pc' = "del-attr"
    /\ UNCHANGED <<doc, s_text, s_elems, s_value, tagVars, batchVars, structVars, spanVars>>

SurgSetText ==
    /\ s_pc = "init"
    /\ s_res' = apply_text_surgical(s_text, s_elems, s_value)
    /\ s_pc' = "set-text"
    /\ UNCHANGED <<doc, s_text, s_elems, s_value, tagVars, batchVars, structVars, spanVars>>

SurgNext == SurgSetAttr \/ SurgDelAttr \/ SurgSetText

SpecSurg == SurgInit /\ [][SurgNext]_vars


\* --------------------------------------- claims on the surgical mutators

\* The tag span the mutators locate for a matched element.
Located(text, el) ==
    find_start_tag_span(text, line_starts(text)[el.sourceline], local_tag(el.tag))

\* C1: set-text on one matched childless element whose located tag is
\* self-closing replaces that tag by the opening tag, the escaped value and
\* the closing tag; the characters before and after the tag span stay as
\* they are; the change count is 1.
C1_SelfClosingExpanded ==
    (/\ s_pc = "set-text"
     /\ Len(s_elems) = 1
     /\ s_elems[1].len = 0
     /\ Located(s_text, s_elems[1]).found
     /\ SelfCloseAt(Slice(s_text, Located(s_text, s_elems[1]).start,
                          Located(s_text, s_elems[1]).end)) # 0)
    => LET el == s_elems[1]
           span == Located(s_text, el)
           tag_text == Slice(s_text, span.start, span.end)
       IN  /\ s_res.end = "ok"
           /\ s_res.changed = 1
           /\ s_res.text =
                Slice(s_text, 1, span.start - 1)
                  \o Slice(tag_text, 1, SelfCloseAt(tag_text) - 1) \o <<">">>
                  \o xml_escape(s_value, "")
                  \o EndTag(local_tag(el.tag))
                  \o Slice(s_text, span.end + 1, Len(s_text))

\* Whether the attribute command changes the start tag of element k of
\* the document: set-attr of a value the tag does not already hold, del-attr
\* of an attribute the tag has.
NeedsChange(d, k, set_value, value) ==
    LET t == TagText(DocTag(d, k))
        r == IF set_value THEN set_attr_in_tag(t, NameId, value) ELSE del_attr_in_tag(t, NameId)
    IN  ~r.raised /\ r.changed /\ r.text # t

\* The start tags of the document after the attribute command has changed
\* those of the matched elements and no other.
ChangedTags(d, elements, set_value, value) ==
    [k \in 0..Len(d.kids) |->
        LET t == TagText(DocTag(d, k))
        IN  IF \E j \in 1..Len(elements) : elements[j].kid = k
            THEN (IF set_value THEN set_attr_in_tag(t, NameId, value)
                  ELSE del_attr_in_tag(t, NameId)).text
            ELSE t]

\* C2: with N distinct matched elements that each need an attribute change,
\* apply_attr_surgical returns change count N, the start tags of exactly the
\* matched elements are rewritten, and every character outside those tags
\* is as in the original text.
C2_DisjointMultiEdit ==
    (/\ s_pc \in {"set-attr", "del-attr"}
     /\ \A j \in 1..Len(s_elems) :
           NeedsChange(doc, s_elems[j].kid, s_pc = "set-attr", s_value))
    => /\ s_res.end = "ok"
       /\ s_res.changed = Len(s_elems)
       /\ s_res.text = RenderWith(doc, ChangedTags(doc, s_elems, s_pc = "set-attr", s_value))

\* C28: a surgical command that reports a change count above 0 has
\* returned a text that differs from the one it was given.
C28_ChangeCountMeansChange ==
    (/\ s_pc \in {"set-attr", "del-attr", "set-text"}
     /\ s_res.end = "ok"
     /\ s_res.changed > 0)
    => s_res.text # s_text

\* The offset of the `>` of the start tag of element k of the document.
TagEnd(d, k) == TagStart(d, k) + Len(TagText(DocTag(d, k))) - 1

\* C20: every edit a surgical mutator records is at the start tag of one of
\* the matched elements: the attribute commands replace the span of that
\* tag, set-text replaces it (a self-closing tag) or starts right after it.
C20_EditsOwnTag ==
    (s_pc \in {"set-attr", "del-attr", "set-text"} /\ s_res.end = "ok") =>
        \A n \in 1..Len(s_res.edits) :
            \E j \in 1..Len(s_elems) :
                \/ /\ s_res.edits[n].start = TagStart(doc, s_elems[j].kid)
                   /\ s_res.edits[n].end = TagEnd(doc, s_elems[j].kid)
                \/ /\ s_pc = "set-text"
                   /\ s_res.edits[n].start = TagEnd(doc, s_elems[j].kid) + 1


\* The offsets of the original text that the n-th recorded edit replaces:
\* text[start : end + 1] in apply_attr_surgical, text[start : end] in
\* apply_text_surgical.
Covered(n) ==
    IF s_pc = "set-text" THEN s_res.edits[n].start..(s_res.edits[n].end - 1)
    ELSE s_res.edits[n].start..s_res.edits[n].end

\* C21: the edits a surgical mutator has recorded for a text are pairwise
\* disjoint: no offset of the original text is replaced by two of them.
C21_EditsDisjoint ==
    (s_pc \in {"set-attr", "del-attr", "set-text"} /\ s_res.end = "ok") =>
        \A m, n \in 1..Len(s_res.edits) : m # n => Covered(m) \cap Covered(n) = {}

\* The n-th recorded edit by the span it replaces, Covered(n), and its new
\* text.
SpanOf(n) ==
    [start |-> s_res.edits[n].start,
     last |-> IF s_pc = "set-text" THEN s_res.edits[n].end - 1 ELSE s_res.edits[n].end,
     new |-> s_res.edits[n].new]

\* The spans of the set replaced in the text all at once: from the offset
\* from on, the original up to the first span, its new text, and so on.
RECURSIVE Spliced(_, _, _)
Spliced(text, spans, from) ==
    LET Then(sp) ==
            Slice(text, from, sp.start - 1) \o sp.new \o Spliced(text, spans \ {sp}, sp.last + 1)
    IN  IF spans = {} THEN Slice(text, from, Len(text))
        ELSE Then(CHOOSE sp \in spans : \A other \in spans : sp.start <= other.start)

\* C22: the edits are collected against the original text, and when their
\* spans are pairwise disjoint the text returned is the original with every
\* span replaced by its edit's new text, all at once: everything outside
\* the spans is as it was and in order, whatever the lengths of the new
\* texts.
C22_DescendingIsSimultaneous ==
    (/\ s_pc \in {"set-attr", "del-attr", "set-text"}
     /\ s_res.end = "ok"
     /\ \A m, n \in 1..Len(s_res.edits) : m # n => Covered(m) \cap Covered(n) = {})
        => s_res.text = Spliced(s_text, {SpanOf(n) : n \in 1..Len(s_res.edits)}, 1)

\* C22 happens: two edits with disjoint spans were recorded, the new text
\* of the first of a length other than its span's.
C22_DescendingReached ==
    /\ s_pc \in {"set-attr", "set-text"}
    /\ s_res.end = "ok"
    /\ Len(s_res.edits) = 2
    /\ Covered(1) \cap Covered(2) = {}
    /\ s_res.edits[1].start < s_res.edits[2].start
    /\ Len(s_res.edits[1].new) # Cardinality(Covered(1))

\* ------------------------- the surgical mutators on a text that is cut short

\* The most characters missing at the end of a text (a file that was cut
\* short and is parsed with --recover).
MaxCut == 6

\* The offset of the `>` of the last start tag of the document.
LastTagEnd(d) == TagStart(d, Len(d.kids)) + Len(TagText(DocTag(d, Len(d.kids)))) - 1

\* The documents without attributes, whole or cut short after their last
\* start tag.
CutInit ==
    /\ doc \in {d \in Docs : \A k \in 1..Len(d.kids) : d.kids[k].attrs = <<>>}
    /\ \E cut \in 0..MaxCut :
          /\ Len(Render(doc)) - cut >= LastTagEnd(doc)
          /\ s_text = Slice(Render(doc), 1, Len(Render(doc)) - cut)
    /\ s_elems \in MatchLists(doc)
    /\ s_value = <<"v">>
    /\ s_res = NoSurgResult
    /\ s_pc = "init"
    /\ TagOff
    /\ BatchOff
    /\ StructOff
    /\ SpanOff

SpecCut == CutInit /\ [][SurgNext]_vars

\* The edits apply_text_surgical has recorded after the first j elements.
EditsAfter(j) ==
    TextLoop(s_text, line_starts(s_text), SubSeq(s_elems, 1, j), 1, s_value, NoEdits).edits

\* The located tag of the element is an opening tag that no closing tag of
\* its local name follows.
NoEndTag(text, el) ==
    /\ Located(text, el).found
    /\ SelfCloseAt(Slice(text, Located(text, el).start, Located(text, el).end)) = 0
    /\ Find(text, EndTag(local_tag(el.tag)), Located(text, el).end + 1) = 0

\* C11: a matched element whose located opening tag is not self-closing and
\* is followed by no closing tag of its local name gets no edit from
\* apply_text_surgical: the call does not fail, the element adds nothing to
\* the change count, and with only such elements matched the text comes
\* back as it was with change count 0.
C11_NoEndTagNoEdit ==
    (s_pc = "set-text" /\ \A j \in 1..Len(s_elems) : s_elems[j].len = 0) =>
        /\ s_res.end = "ok"
        /\ s_res.edits = EditsAfter(Len(s_elems))
        /\ \A j \in 1..Len(s_elems) :
              NoEndTag(s_text, s_elems[j]) => EditsAfter(j) = EditsAfter(j - 1)
        /\ (\A j \in 1..Len(s_elems) : NoEndTag(s_text, s_elems[j]))
              => (s_res.changed = 0 /\ s_res.text = s_text)

\* C11 happens: set-text on the one element of a text that was cut short
\* before its closing tag has returned the text as it was, change count 0.
C11_NoEndTagReached ==
    /\ s_pc = "set-text"
    /\ Len(s_elems) = 1
    /\ s_elems[1].len = 0
    /\ s_text # Render(doc)
    /\ NoEndTag(s_text, s_elems[1])
    /\ s_res.end = "ok"
    /\ s_res.changed = 0
    /\ s_res.text = s_text


\* ------------------------- the surgical mutators on a text with comments

\* A comment at the start of the first child's line, and one after the last
\* child: none, or <!--'-->, a comment whose text is an apostrophe.
Comments == {<<>>, <<"<", "!", "-", "-", SQ, "-", "-", ">">>}

\* The text of the document with those comments.  The children are on the
\* lines they are on in Render(d).
NoteText(d, c1, c2) ==
    TagText(RootTag) \o d.sep \o c1
      \o Concat([k \in 1..Len(d.kids) |-> KidText(d.kids[k]) \o d.sep])
      \o c2 \o EndTag(RootTag.name)

\* The documents without attributes, with and without the comments.
NoteInit ==
    /\ doc \in {d \in Docs : \A k \in 1..Len(d.kids) : d.kids[k].attrs = <<>>}
    /\ \E c1 \in Comments, c2 \in Comments : s_text = NoteText(doc, c1, c2)
    /\ s_elems \in MatchLists(doc)
    /\ s_value = <<"v">>
    /\ s_res = NoSurgResult
    /\ s_pc = "init"
    /\ TagOff
    /\ BatchOff
    /\ StructOff
    /\ SpanOff

SpecNote == NoteInit /\ [][SurgNext]_vars

\* ------------- the surgical mutators on elements whose line is not in the text

\* The match lists of the document as they are and with one element's
\* sourceline replaced by 0 (el.sourceline is None) or by a line after the
\* last line of the text.
StrayLists(d, text) ==
    {[j \in 1..Len(els) |-> IF j = at THEN [els[j] EXCEPT !.sourceline = line] ELSE els[j]] :
        els \in MatchLists(d),
        at \in 0..(MaxKids + 1),
        line \in {0, Len(line_starts(text)) + 1}}

\* The documents of children i and p:i without attributes, with and without
\* a comment before the first child.
StrayInit ==
    /\ doc \in {d \in Docs : \A k \in 1..Len(d.kids) :
                                d.kids[k].attrs = <<>> /\ d.kids[k].name # <<"i", "t">>}
    /\ \E c1 \in Comments : s_text = NoteText(doc, c1, <<>>)
    /\ s_elems \in StrayLists(doc, s_text)
    /\ s_value = <<"v">>
    /\ s_res = NoSurgResult
    /\ s_pc = "init"
    /\ TagOff
    /\ BatchOff
    /\ StructOff
    /\ SpanOff

SpecStray == StrayInit /\ [][SurgNext]_vars

\* The element's sourceline is a line of the text.
InRange(el) == el.sourceline >= 1 /\ el.sourceline <= Len(line_starts(s_text))

\* The j-th matched element has a line of the text and a tag span is found
\* for it.
Spanned(j) == InRange(s_elems[j]) /\ Located(s_text, s_elems[j]).found

\* The j-th matched element is passed over: its line is 0 or after the last
\* line, no tag span is found for it, or the tag start found for it is that
\* of an earlier element.
Skipped(j) ==
    \/ ~Spanned(j)
    \/ \E i \in 1..(j - 1) :
          /\ Spanned(i)
          /\ Located(s_text, s_elems[i]).start = Located(s_text, s_elems[j]).start

\* C23: no element that is passed over ends the mutator in an error (only
\* an element with children does, in set-text); every recorded edit is that
\* of an element not passed over, at its tag start or right after its start
\* tag; no two edits start at the same offset; and the change count is the
\* number of edits, at most the number of elements not passed over.
C23_AtMostOneEditPerElement ==
    s_pc \in {"set-attr", "del-attr", "set-text"} =>
        /\ s_res.end # "ok" =>
              (s_pc = "set-text" /\ \E j \in 1..Len(s_elems) : s_elems[j].len > 0)
        /\ s_res.end = "ok" =>
              /\ s_res.changed = Len(s_res.edits)
              /\ s_res.changed <= Cardinality({j \in 1..Len(s_elems) : ~Skipped(j)})
              /\ s_res.changed <= Len(s_elems)
              /\ \A m, n \in 1..Len(s_res.edits) :
                    m # n => s_res.edits[m].start # s_res.edits[n].start
              /\ \A n \in 1..Len(s_res.edits) :
                    \E j \in 1..Len(s_elems) :
                        /\ ~Skipped(j)
                        /\ s_res.edits[n].start
                              \in {Located(s_text, s_elems[j]).start,
                                   Located(s_text, s_elems[j]).end + 1}
              /\ (\A j \in 1..Len(s_elems) : Skipped(j)) => s_res.text = s_text

\* C23 happens: of three matched elements one has a line that is not in the
\* text and one resolves to the tag start of an earlier one; the third is
\* edited.
C23_SkipsReached ==
    /\ s_pc = "set-attr"
    /\ s_res.end = "ok"
    /\ Len(s_elems) = 3
    /\ \E i, j \in 1..3 : i # j /\ ~InRange(s_elems[i]) /\ Spanned(j) /\ Skipped(j)
    /\ s_res.changed = 1

\* ------------------------------------ the structural mutators on a document

\* The commands: insert at each position and replace, with no node or two
\* and each form of --indent, and delete.
StructCommands ==
    {StructArgs("insert", pos, nodes, indent) :
        pos \in {"before", "after", "inside-first", "inside-last"},
        nodes \in Fragments, indent \in IndentOptions}
    \cup {StructArgs("replace", "none", nodes, indent) :
            nodes \in Fragments, indent \in IndentOptions}
    \cup {NoStructArgs}

\* Every tree, match list and command for a file that is its root element
\* alone; every form of header for a tree of one child that is matched.
StructInit ==
    /\ m_head \in Prologs
    /\ m_tree \in Trees
    /\ m_ids \in IdLists(m_tree)
    /\ m_args \in StructCommands
    /\ \/ m_head = NoProlog
       \/ /\ Len(m_tree.kids) = 1
          /\ m_tree.text = <<NL>>
          /\ m_ids = <<1>>
          /\ m_args.indent = NoIndent
    /\ m_res = MutState(EmptyTree, 0, 0, "ok", "none")
    /\ m_out = NoOutput
    /\ m_pc = "init"
    /\ TagOff
    /\ SurgOff
    /\ BatchOff
    /\ SpanOff

\* The body of the loop of mutate_files for one file: parse_doc has read
\* the header, the mutator changes the tree, serialize writes it.
StructRun(cmd) ==
    LET Output(tree, det) ==
            serialize(tree, RootAttrs(m_head), DocInfoOf(m_head), det.has_decl, det.enc)
        Written(st) ==
            IF st.end # "ok" THEN NoOutput
            ELSE Output(st.tree, detect_decl_and_encoding(Data(m_head, m_tree)))
        Done(st) ==
            /\ m_res' = st
            /\ m_out' = Written(st)
    IN  /\ m_pc = "init"
        /\ m_args.cmd = cmd
        /\ Done(apply_structural(m_tree, m_ids, m_args))
        /\ m_pc' = cmd
        /\ UNCHANGED <<m_head, m_tree, m_ids, m_args, tagVars, surgVars, batchVars, spanVars>>

StructInsert == StructRun("insert")

StructReplace == StructRun("replace")

StructDelete == StructRun("delete")

StructNext == StructInsert \/ StructReplace \/ StructDelete

SpecStruct == StructInit /\ [][StructNext]_vars


\* ------------------------------------- claims on the structural mutators

\* The nodes of the tree after the command that were not in the tree
\* before it: the copies of the fragment's nodes, among the root's children
\* and among the children of those.
InsertedSiblings ==
    {m_res.tree.kids[k] : k \in {j \in 1..Len(m_res.tree.kids) :
                                    m_res.tree.kids[j].id > Len(m_tree.kids)}}

InsertedInside ==
    UNION {{m_res.tree.kids[k].kids[j] : j \in 1..Len(m_res.tree.kids[k].kids)} :
             k \in 1..Len(m_res.tree.kids)}

\* The matched element a copy was made for: the copies of the n-th match
\* are numbered after those of the matches before it.
TargetOf(n) == m_ids[((n.id - Len(m_tree.kids) - 1) \div Len(m_args.nodes)) + 1]

\* Whitespace with a newline in it.
NewlineWs(t) ==
    /\ \A k \in 1..Len(t) : t[k] \in {SP, NL, "\t"}
    /\ \E k \in 1..Len(t) : t[k] = NL

\* C12: insert before/after and replace without --indent give every
\* inserted node as its tail the tail the target had, if that is whitespace
\* with a newline, else the text of the target's parent, if that is, else
\* one newline.
C12_SiblingTailInferred ==
    (/\ m_pc \in {"insert", "replace"}
     /\ m_args.position \in {"before", "after", "none"}
     /\ ~m_args.indent.given)
    => \A n \in InsertedSiblings :
          n.tail = IF NewlineWs(m_tree.kids[TargetOf(n)].tail) THEN m_tree.kids[TargetOf(n)].tail
                   ELSE IF NewlineWs(m_tree.text) THEN m_tree.text
                   ELSE <<NL>>

\* C12 happens: two nodes inserted after a target whose tail is a newline
\* and a space, in a parent whose text is another, both have that tail.
C12_SiblingTailReached ==
    /\ m_pc = "insert"
    /\ m_args.position = "after"
    /\ ~m_args.indent.given
    /\ m_ids = <<1>>
    /\ m_tree.text = <<NL>>
    /\ m_tree.kids[1].tail = <<NL, SP>>
    /\ m_res.end = "ok"
    /\ Cardinality(InsertedSiblings) = 2
    /\ \A n \in InsertedSiblings : n.tail = <<NL, SP>>

\* C13: with --indent given, whatever its string, the tail of every
\* inserted node is that string.
C13_OverrideIsTail ==
    (m_pc \in {"insert", "replace"} /\ m_args.indent.given)
    => \A n \in InsertedSiblings \cup InsertedInside : n.tail = m_args.indent.s

\* C19: after insert, replace or delete the output has a declaration if and
\* only if the bytes began with one; its encoding is the one that
\* declaration named, or else the one the parser reports, or else utf-8;
\* and the document type declaration is the one of the bytes.
C19_DeclarationKept ==
    (m_pc \in {"insert", "replace", "delete"} /\ m_res.end = "ok") =>
        /\ m_out.xml_declaration <=> m_head.decl # "none"
        /\ m_head.decl = "encoding" => m_out.encoding = Latin1
        /\ m_head.decl # "encoding"
             => m_out.encoding = IF m_head.reported # <<>> THEN m_head.reported ELSE UTF8
        /\ m_out.doctype = DoctypeText(m_head)

\* C27: detect_decl_and_encoding on the bytes of a file a structural
\* command has written from: it reports a declaration exactly when the
\* bytes begin with one, the encoding it reports is the one the declaration
\* names (none where the declaration names a version only, whatever
\* encoding= stands in the root's start tag), and none without a
\* declaration.
C27_EncodingFromDeclaration ==
    (m_pc \in {"insert", "replace", "delete"} /\ m_res.end = "ok") =>
        /\ detect_decl_and_encoding(Data(m_head, m_tree)).has_decl = m_out.xml_declaration
        /\ detect_decl_and_encoding(Data(m_head, m_tree)).has_decl <=> m_head.decl # "none"
        /\ detect_decl_and_encoding(Data(m_head, m_tree)).enc
             = IF m_head.decl = "encoding" THEN Latin1 ELSE <<>>

\* The tail the claim gives a node inserted into the root: by the root's
\* text for inside-first, by the tail of the root's last child for
\* inside-last, one newline where that is not whitespace with a newline.
InsideTail(position) ==
    IF position = "inside-first"
    THEN IF NewlineWs(m_tree.text) THEN m_tree.text ELSE <<NL>>
    ELSE IF m_tree.kids # <<>> /\ NewlineWs(m_tree.kids[Len(m_tree.kids)].tail)
    THEN m_tree.kids[Len(m_tree.kids)].tail
    ELSE <<NL>>

\* C24: insert inside-first / inside-last without --indent, the root being
\* the first match: every node inserted into the root has as its tail the
\* root's text (inside-first) or the tail of the root's last child
\* (inside-last) if that is whitespace with a newline, else one newline.
C24_InsideTailInferred ==
    (/\ m_pc = "insert"
     /\ m_args.position \in {"inside-first", "inside-last"}
     /\ ~m_args.indent.given
     /\ m_res.end = "ok"
     /\ m_ids # <<>>
     /\ m_ids[1] = 0)
    => \A n \in InsertedSiblings : n.tail = InsideTail(m_args.position)

\* Which objects a list of elements holds, and where: the id and the name of
\* each, and the same of its children.
Shape(kids) ==
    [k \in 1..Len(kids) |->
        [id |-> kids[k].id, name |-> kids[k].name,
         kids |-> [j \in 1..Len(kids[k].kids) |->
                     [id |-> kids[k].kids[j].id, name |-> kids[k].kids[j].name, kids |-> <<>>]]]]

\* The copies made for the n-th match: new objects, one for each node of
\* the fragment and in the fragment's order.
CopiesFor(n) ==
    [j \in 1..Len(m_args.nodes) |->
        [id |-> Len(m_tree.kids) + (n - 1) * Len(m_args.nodes) + j,
         name |-> m_args.nodes[j].name, kids |-> <<>>]]

\* The copies made for the element with that id, none if it is no match.
CopiesOfId(id) ==
    IF \E n \in 1..Len(m_ids) : m_ids[n] = id
    THEN CopiesFor(CHOOSE n \in 1..Len(m_ids) : m_ids[n] = id)
    ELSE <<>>

\* What the claim has in the place of child k of the root after the
\* command: the child with the copies before it, after it or as its
\* children, or for replace the copies without the child.
PlaceOf(k) ==
    IF \A n \in 1..Len(m_ids) : m_ids[n] # k
    THEN <<[id |-> k, name |-> m_tree.kids[k].name, kids |-> <<>>]>>
    ELSE IF m_pc = "replace" THEN CopiesOfId(k)
    ELSE IF m_args.position = "before"
    THEN CopiesOfId(k) \o <<[id |-> k, name |-> m_tree.kids[k].name, kids |-> <<>>]>>
    ELSE IF m_args.position = "after"
    THEN <<[id |-> k, name |-> m_tree.kids[k].name, kids |-> <<>>]>> \o CopiesOfId(k)
    ELSE <<[id |-> k, name |-> m_tree.kids[k].name, kids |-> CopiesOfId(k)]>>

\* C25: after insert or replace every match has copies of its own, new
\* objects that are neither the fragment's nodes nor the copies of another
\* match, all of them in the fragment's order side by side at the requested
\* place: before or after the target, as the first or the last children of
\* the target, or for replace where the target was, the target gone.
C25_OwnCopiesInPlace ==
    (m_pc \in {"insert", "replace"} /\ m_res.end = "ok") =>
        Shape(m_res.tree.kids)
            = (IF m_args.position = "inside-first" THEN CopiesOfId(0) ELSE <<>>)
                \o Concat([k \in 1..Len(m_tree.kids) |-> PlaceOf(k)])
                \o (IF m_args.position = "inside-last" THEN CopiesOfId(0) ELSE <<>>)

\* C25 happens: replace with a fragment of two nodes and two matches has
\* put four new objects in the place of the two.
C25_OwnCopiesReached ==
    /\ m_pc = "replace"
    /\ m_res.end = "ok"
    /\ m_ids = <<1, 2>>
    /\ Len(m_args.nodes) = 2
    /\ Len(m_res.tree.kids) = 4
    /\ Cardinality({m_res.tree.kids[k].id : k \in 1..4}) = 4
    /\ \A k \in 1..4 : m_res.tree.kids[k].id > 2

\* --------------------------------------------------- a command over a batch

Structural == {"insert", "replace", "delete"}

Init ==
    /\ b_args \in CommandLines
    /\ b_files \in UNION {[1..n -> Files] : n \in 0..NFiles}
    /\ disk = [p \in DOMAIN b_files |-> Bytes(b_files[p])]
    /\ b_paths = <<>>
    /\ b_idx = 0
    /\ b_rounds = <<>>
    /\ b_out = <<>>
    /\ b_writes = {}
    /\ b_err = "none"
    /\ b_pc = "main"
    /\ TagOff
    /\ SurgOff
    /\ StructOff
    /\ SpanOff

\* A plausible slip: the fragment read before the gate is looked at.
FragmentFirst(args) ==
    IF args.cmd # "delete" /\ args.xml = "bad" THEN "fragment"
    ELSE IF ~args.reformat_ok THEN "reformat"
    ELSE "none"

\* The first statements of cmd_insert, cmd_replace and cmd_delete: the
\* --reformat-ok gate, then (insert and replace) read_xml_fragment, which
\* ends in fail() on a text that does not parse.  The message of the fail()
\* reached, "none" where the command goes on.
StructuralStart(args) ==
    IF ~args.reformat_ok THEN "reformat"
    ELSE IF args.cmd # "delete" /\ args.xml = "bad" THEN "fragment"
    ELSE "none"

\* cmd_insert, cmd_replace, cmd_delete up to the call of mutate_files: the
\* --reformat-ok gate, then the fragment is read.
CmdStructural ==
    /\ b_pc = "main"
    /\ b_args.cmd \in Structural
    /\ IF StructuralStart(b_args) # "none"
       THEN b_pc' = "exit" /\ b_err' = StructuralStart(b_args)
       ELSE b_pc' = "mutate_files" /\ b_err' = b_err
    /\ UNCHANGED <<b_args, b_files, disk, b_paths, b_idx, b_rounds, b_out, b_writes, tagVars, surgVars, structVars, spanVars>>

\* paths = expand_paths(args.paths); if not paths: fail("no files matched").
EnterLoop ==
    /\ b_paths' = expand_paths(b_args.paths, DOMAIN b_files)
    /\ IF b_paths' = <<>>
       THEN b_pc' = "exit" /\ b_err' = "no files" /\ b_idx' = b_idx
       ELSE b_pc' = "loop" /\ b_err' = b_err /\ b_idx' = 1
    /\ UNCHANGED <<b_args, b_files, disk, b_rounds, b_out, b_writes, tagVars, surgVars, structVars, spanVars>>

\* mutate_files up to its loop.
MutateFilesBegin ==
    /\ b_pc = "mutate_files"
    /\ EnterLoop

\* cmd_set_text, cmd_set_attr, cmd_del_attr up to their loops.
CmdSurgicalBegin ==
    /\ b_pc = "main"
    /\ b_args.cmd \notin Structural
    /\ EnterLoop

\* A plausible slip: the files written so far put back when a round fails.
RolledBack(written, files) == [q \in DOMAIN files |-> Bytes(files[q])]

\* fail() raises SystemExit and nothing catches it (nor any other
\* exception): the files stay as the rounds before left them.
AfterFail(written, files) == written

\* One round of the loop over the paths: the write, the summary line and
\* the next path, or the end of the command where the round failed; after
\* the last path the command returns 0.
LoopRound ==
    LET End(path, r) ==
            /\ b_rounds' = Append(b_rounds, r)
            /\ IF r.end = "ok"
               THEN /\ disk' = IF r.wrote THEN [disk EXCEPT ![path] = r.updated] ELSE disk
                    /\ b_writes' = IF r.wrote THEN b_writes \cup {path} ELSE b_writes
                    /\ b_out' = Append(b_out, summarize(path, Len(r.handed), r.changed, r.wrote))
                    /\ b_idx' = b_idx + 1
                    /\ b_pc' = IF b_idx = Len(b_paths) THEN "done" ELSE "loop"
                    /\ b_err' = b_err
               ELSE /\ b_pc' = r.end
                    /\ b_err' = r.err
                    /\ disk' = AfterFail(disk, b_files)
                    /\ UNCHANGED <<b_out, b_writes, b_idx>>
            /\ UNCHANGED <<b_args, b_files, b_paths, tagVars, surgVars, structVars, spanVars>>
    IN  End(b_paths[b_idx], RunFile(b_paths[b_idx], b_files[b_paths[b_idx]], b_args))

\* The loop of mutate_files.
MutateFile ==
    /\ b_pc = "loop"
    /\ b_args.cmd \in Structural
    /\ LoopRound

\* The loop of cmd_set_text.
SetTextFile ==
    /\ b_pc = "loop"
    /\ b_args.cmd = "set-text"
    /\ LoopRound

\* The loop of cmd_set_attr.
SetAttrFile ==
    /\ b_pc = "loop"
    /\ b_args.cmd = "set-attr"
    /\ LoopRound

\* The loop of cmd_del_attr.
DelAttrFile ==
    /\ b_pc = "loop"
    /\ b_args.cmd = "del-attr"
    /\ LoopRound

Next ==
    \/ CmdStructural
    \/ MutateFilesBegin
    \/ CmdSurgicalBegin
    \/ MutateFile
    \/ SetTextFile
    \/ SetAttrFile
    \/ DelAttrFile

Spec == Init /\ [][Next]_vars

Ended == b_pc \in {"done", "exit", "crash"}

\* ------------------------------------- a command over a list of path arguments

\* The most path arguments of a command line.
MaxPaths == 2

\* A document of two children on lines of their own, the first self-closing
\* and the second with a child element of its own.
NestDoc ==
    [kids |-> <<[name |-> <<"i">>, attrs |-> <<>>, gap |-> <<>>, selfclose |-> TRUE],
                [name |-> <<"i">>, attrs |-> <<>>, gap |-> <<>>, selfclose |-> FALSE,
                 nested |-> TRUE]>>,
     sep |-> <<NL>>]

\* The path arguments of a command over n files: up to MaxPaths of them,
\* each a pattern or the literal path of a file, in any order and with
\* repetitions.
PathLists(n) ==
    UNION {[1..m -> {Pattern} \cup {Literal(q) : q \in 1..n}] : m \in 1..MaxPaths}

\* The command lines given with them: no --limit and no --recover, the
\* children of the root or all elements selected, and for set-text also a
\* value that is no valid replacement template.
PathCommands ==
    {[a EXCEPT !.value = v] :
        a \in {c \in CommandLines :
                  /\ c.limit = NoLimit
                  /\ ~c.recover
                  /\ c.xml = "ok"
                  /\ c.xpath \in {"kids", "all"}
                  /\ c.position \in {"none", "after", "inside-last"}
                  /\ c.cmd \in {"insert", "replace"} => c.nodes # <<>>},
        v \in {<<"v">>, <<BS, "x">>}}

ArgsInit ==
    /\ b_files \in UNION {[1..n -> {File("doc", BatchDoc), File("doc", NestDoc)}] : n \in 0..NFiles}
    /\ \E a \in PathCommands, ps \in PathLists(Len(b_files)) :
          /\ a.cmd = "set-text" \/ a.value = <<"v">>
          /\ b_args = [a EXCEPT !.paths = ps]
    /\ disk = [q \in DOMAIN b_files |-> Bytes(b_files[q])]
    /\ b_paths = <<>>
    /\ b_idx = 0
    /\ b_rounds = <<>>
    /\ b_out = <<>>
    /\ b_writes = {}
    /\ b_err = "none"
    /\ b_pc = "main"
    /\ TagOff
    /\ SurgOff
    /\ StructOff
    /\ SpanOff

SpecArgs == ArgsInit /\ [][Next]_vars


\* ------------------------------------------------------ claims on the batch

\* The failures of one file: the parse error, the selection that is not of
\* elements, the structural edit of the root, the file that cannot be read.
PerFileFailures == {"parse", "select", "root", "read"}

\* C3: a failure on one file of the batch does not stop the command: when it
\* has ended on such a failure, every path of the expanded list has still
\* had its round of the loop.
C3_FailureDoesNotStopBatch ==
    (Ended /\ b_err \in PerFileFailures) => Len(b_rounds) = Len(b_paths)

\* The commands that fail on the root: delete, replace, insert before/after.
RootTargeting(args) ==
    \/ args.cmd \in {"delete", "replace"}
    \/ args.cmd = "insert" /\ args.position \in {"before", "after"}

HandedRoot(r) == \E j \in 1..Len(r.handed) : r.handed[j] = 0

Original(path) == Bytes(b_files[path])

\* C4: when the elements handed to delete, replace or insert before/after
\* include the root, the round ends in the structural error, and the file
\* is neither opened for writing nor changed on disk, whatever --in-place
\* says and whatever was done to the tree in memory before the root's turn.
C4_RootGuardNoWrite ==
    \A k \in 1..Len(b_rounds) :
        (RootTargeting(b_args) /\ HandedRoot(b_rounds[k]))
            => /\ b_rounds[k].end = "exit"
               /\ b_rounds[k].err = "root"
               /\ b_pc = "exit"
               /\ b_rounds[k].path \notin b_writes
               /\ disk[b_rounds[k].path] = Original(b_rounds[k].path)

\* C4 happens: under --in-place a round has failed on the root that was
\* handed over together with other elements.
C4_RootGuardReached ==
    \E k \in 1..Len(b_rounds) :
        /\ RootTargeting(b_args)
        /\ b_args.in_place
        /\ HandedRoot(b_rounds[k])
        /\ Len(b_rounds[k].handed) > 1
        /\ b_rounds[k].err = "root"

\* The rounds of a path that got as far as the write decision.
Completed(path) == {k \in 1..Len(b_rounds) : b_rounds[k].path = path /\ b_rounds[k].end = "ok"}

\* C5: a file is opened for writing if and only if its round computed a
\* change count above 0 and --in-place was given; it then holds the updated
\* bytes and its summary line says written; any other file holds the bytes
\* it had when the command started.
C5_WrittenIffChangedAndInPlace ==
    \A path \in DOMAIN b_files :
        /\ path \in b_writes
             <=> (b_args.in_place /\ \E k \in Completed(path) : b_rounds[k].changed > 0)
        /\ path \notin b_writes => disk[path] = Original(path)
        /\ \A k \in Completed(path) :
              /\ path \in b_writes => disk[path] = b_rounds[k].updated
              /\ b_out[k].action = "written" <=> path \in b_writes
              /\ b_out[k].action = "no changes" <=> b_rounds[k].changed = 0

\* C5 happens: a file has been written and its bytes have changed.
C5_WriteReached ==
    \E path \in b_writes : disk[path] # Original(path)

\* The rounds in which the mutator was handed elements.
Handed(r) == r.err \notin {"read", "parse", "select"}

\* The ids of the children the tree has lost.
Lost(r) ==
    {k \in 1..Len(b_files[r.path].d.kids) : \A j \in 1..Len(r.tree.kids) : r.tree.kids[j].id # k}

\* C6: with --limit N and M matches, 0 < N < M, the mutator is handed the
\* first N matches in query order, the summary line counts N matches, and
\* delete and replace change exactly those N elements; with no limit all M
\* matches are handed over and counted.
C6_LimitTruncatesBeforeMutation ==
    \A k \in 1..Len(b_rounds) :
        Handed(b_rounds[k]) =>
            /\ (b_args.limit.given /\ 0 < b_args.limit.n /\ b_args.limit.n < Len(b_rounds[k].items))
                 => /\ b_rounds[k].handed = Ids(SubSeq(b_rounds[k].items, 1, b_args.limit.n))
                    /\ b_rounds[k].end = "ok" => b_out[k].matches = b_args.limit.n
                    /\ (b_rounds[k].end = "ok" /\ b_args.cmd \in {"delete", "replace"})
                         => /\ b_rounds[k].changed = b_args.limit.n
                            /\ Lost(b_rounds[k])
                                 = {b_rounds[k].handed[j] : j \in 1..b_args.limit.n}
            /\ ~b_args.limit.given
                 => /\ b_rounds[k].handed = Ids(b_rounds[k].items)
                    /\ b_rounds[k].end = "ok" => b_out[k].matches = Len(b_rounds[k].items)

\* C6 happens: delete with a limit below the number of matches has removed
\* the first match and left the second.
C6_LimitReached ==
    \E k \in 1..Len(b_rounds) :
        /\ b_args.cmd = "delete"
        /\ b_args.limit = Limit(1)
        /\ Len(b_rounds[k].items) = 2
        /\ b_rounds[k].end = "ok"
        /\ b_rounds[k].changed = 1
        /\ Lost(b_rounds[k]) = {1}

\* The items of a query result that are no elements.
NonElements(items) == {j \in 1..Len(items) : ~items[j].elem}

\* C14: when an item of the query result is not an element, the round ends
\* in the selection error: the mutator has been handed nothing, the tree in
\* memory is the parsed one, and the file is neither opened for writing nor
\* changed on disk.
C14_NonElementFails ==
    \A k \in 1..Len(b_rounds) :
        NonElements(b_rounds[k].items) # {}
            => /\ b_rounds[k].end = "exit"
               /\ b_rounds[k].err = "select"
               /\ b_rounds[k].handed = <<>>
               /\ b_rounds[k].tree = TreeOf(b_files[b_rounds[k].path].d)
               /\ b_rounds[k].path \notin b_writes
               /\ disk[b_rounds[k].path] = Original(b_rounds[k].path)

\* The elements handed to the mutator in round r that have child elements.
ChildBearing(r) ==
    {j \in 1..Len(r.handed) : Element(b_files[r.path].d, r.handed[j]).len > 0}

\* C15: when an element handed to set-text has child elements, the round
\* does not reach the write decision, wherever in the list that element is:
\* it ends in the error about child elements (or, before that element's
\* turn, on a value that is no valid template), no updated text is
\* produced, the command ends there without a summary line for the file,
\* and the file is neither opened for writing nor changed on disk.
C15_ChildrenFailNoWrite ==
    \A k \in 1..Len(b_rounds) :
        (b_args.cmd = "set-text" /\ ChildBearing(b_rounds[k]) # {})
            => /\ b_rounds[k].end \in {"exit", "crash"}
               /\ b_rounds[k].err \in {"children", "re.error"}
               /\ b_args.value = <<"v">> => b_rounds[k].err = "children"
               /\ b_rounds[k].updated = <<>>
               /\ ~b_rounds[k].wrote
               /\ b_pc = b_rounds[k].end
               /\ Len(b_out) < k
               /\ b_rounds[k].path \notin b_writes
               /\ disk[b_rounds[k].path] = Original(b_rounds[k].path)

\* C15 happens: under --in-place set-text was handed a childless element,
\* whose edit alone would have changed the text, and after it an element
\* with a child; the round has failed on the latter.
C15_ChildrenFailReached ==
    \E k \in 1..Len(b_rounds) :
        /\ b_args.cmd = "set-text"
        /\ b_args.in_place
        /\ b_rounds[k].handed = <<1, 2>>
        /\ ChildBearing(b_rounds[k]) = {2}
        /\ apply_text_surgical(Original(b_rounds[k].path),
                               <<Element(b_files[b_rounds[k].path].d, 1)>>,
                               b_args.value).changed = 1
        /\ b_rounds[k].err = "children"

\* The path list has been expanded.
PathsExpanded == b_pc \in {"loop", "done", "crash"} \/ (b_pc = "exit" /\ b_err # "reformat")

\* C18: the expanded path list names no path twice and is sorted, and when
\* it is empty the command has ended in the error that no files matched,
\* without a round of the loop.
C18_ExpansionSortedNoDuplicates ==
    PathsExpanded =>
        /\ \A i, j \in 1..Len(b_paths) : i < j => b_paths[i] < b_paths[j]
        /\ b_paths = <<>> => (b_pc = "exit" /\ b_err = "no files" /\ b_rounds = <<>>)

\* The paths of the expanded list that have had exactly n summary lines.
Summarized(n) ==
    {i \in 1..Len(b_paths) :
        Cardinality({k \in 1..Len(b_out) : b_out[k].path = b_paths[i]}) = n}

\* C16: when a command that expanded its path list has ended, every path of
\* the list has had exactly one summary line, whether its round succeeded
\* or failed.
C16_OneSummaryPerFile ==
    (Ended /\ PathsExpanded) => Summarized(1) = 1..Len(b_paths)

\* C17: the rounds take the paths in the order of the expanded list, one
\* after the other; whenever the command stands or has stopped at file k,
\* every earlier file whose round had a change count above 0 under
\* --in-place is written and holds its updated bytes, every other earlier
\* file and file k's own failed round left the original bytes, and no file
\* after k has been opened for writing or changed.
C17_NoRollbackInOrder ==
    /\ Len(b_rounds) <= Len(b_paths)
    /\ \A k \in 1..Len(b_rounds) :
          /\ b_rounds[k].path = b_paths[k]
          /\ (k < Len(b_rounds) \/ b_pc \in {"loop", "done"}) => b_rounds[k].end = "ok"
          /\ IF b_rounds[k].end = "ok" /\ b_rounds[k].changed > 0 /\ b_args.in_place
             THEN /\ b_paths[k] \in b_writes
                  /\ disk[b_paths[k]] = b_rounds[k].updated
             ELSE /\ b_paths[k] \notin b_writes
                  /\ disk[b_paths[k]] = Original(b_paths[k])
    /\ \A i \in (Len(b_rounds) + 1)..Len(b_paths) :
          /\ b_paths[i] \notin b_writes
          /\ disk[b_paths[i]] = Original(b_paths[i])

\* C17 happens: the command has stopped on a failure at its second file
\* after the first was written with changed bytes.
C17_NoRollbackReached ==
    /\ b_pc \in {"exit", "crash"}
    /\ Len(b_rounds) = 2
    /\ b_rounds[2].end # "ok"
    /\ b_rounds[1].changed > 0
    /\ b_paths[1] \in b_writes
    /\ disk[b_paths[1]] = b_rounds[1].updated
    /\ disk[b_paths[1]] # Original(b_paths[1])

\* C29: in every round of a structural command that ended without error,
\* the change count of delete and replace is the number of elements handed
\* to the mutator and that of insert is that number times the number of
\* nodes of the fragment; so an insert of a fragment without nodes has 0
\* changes and its file is not written, whatever --in-place says.
C29_StructuralChangeCounts ==
    b_args.cmd \in Structural =>
        \A k \in 1..Len(b_rounds) :
            b_rounds[k].end = "ok" =>
                /\ b_rounds[k].changed
                     = IF b_args.cmd = "insert"
                       THEN Len(b_rounds[k].handed) * Len(b_args.nodes)
                       ELSE Len(b_rounds[k].handed)
                /\ (b_args.cmd = "insert" /\ b_args.nodes = <<>>) =>
                       /\ b_rounds[k].changed = 0
                       /\ ~b_rounds[k].wrote
                       /\ b_paths[k] \notin b_writes
                       /\ disk[b_paths[k]] = Original(b_paths[k])

\* C29 happens: an insert of two nodes at each of two matches has reported
\* 2 matches and 4 changes and written the file, and it is not the first
\* file of the batch.
C29_ChangesExceedMatches ==
    /\ b_args.cmd = "insert"
    /\ Len(b_rounds) = 2
    /\ b_rounds[2].end = "ok"
    /\ Len(b_rounds[2].handed) = 2
    /\ b_rounds[2].changed = 4
    /\ b_out[2].matches = 2
    /\ b_out[2].changed = 4
    /\ b_paths[2] \in b_writes

\* C29 happens too for the fragment without nodes: under --in-place two
\* elements were matched, nothing changed and nothing was written.
C29_EmptyFragmentReached ==
    /\ b_args.cmd = "insert"
    /\ b_args.nodes = <<>>
    /\ b_args.in_place
    /\ Len(b_rounds) = 1
    /\ b_rounds[1].end = "ok"
    /\ Len(b_rounds[1].handed) = 2
    /\ b_out[1].action = "no changes"
    /\ b_writes = {}

\* C30: insert, replace or delete without --reformat-ok, whatever the other
\* flags, the fragment and the files: the command stops in the gate's
\* fail(), not in that of the fragment's parse; no path list is made, no
\* file is read, no line is printed, and every file keeps its bytes.
C30_GateBeforeAll ==
    (b_args.cmd \in Structural /\ ~b_args.reformat_ok) =>
        /\ b_pc \in {"main", "exit"}
        /\ b_pc = "exit" => b_err = "reformat"
        /\ b_paths = <<>>
        /\ b_rounds = <<>>
        /\ b_out = <<>>
        /\ b_writes = {}
        /\ \A q \in DOMAIN b_files : disk[q] = Bytes(b_files[q])

\* C30 happens: insert --in-place without --reformat-ok, with a fragment
\* that does not parse and a file with elements to match, has stopped at
\* the gate.
C30_GateReached ==
    /\ b_args.cmd = "insert"
    /\ ~b_args.reformat_ok
    /\ b_args.in_place
    /\ b_args.xml = "bad"
    /\ b_pc = "exit"
    /\ b_err = "reformat"
    /\ Len(b_files) > 0
    /\ b_files[1] = File("doc", BatchDoc)

====
